---- MODULE Spec2Model ----
(***************************************************************************)
(* AIOPriceRandomizer: the price randomization engine (mod.js) and its     *)
(* configuration loader (aio-price-randomizer-loader.js).                  *)
(*                                                                         *)
(* The repository holds two builds of the engine and of the loader:        *)
(*   build "A": src/unnamed/part_000 lines 1-373 (class PriceRandomizer    *)
(*              with _lookupPrice, _runCycle, ...) and the loader of       *)
(*              src/unnamed/part_001 lines 1-213;                          *)
(*   build "B": src/unnamed/part_000 lines 374-783 (the same class with    *)
(*              _lookupTemplatePriceFromDatabase, ...) and the loader of   *)
(*              src/src/aio-price-randomizer-loader.js.                    *)
(* The variable build says which one runs; it is chosen in Init and never  *)
(* changes.  Where the two builds differ there is one operator per build,  *)
(* named as in the source; where they agree line by line there is one      *)
(* operator, named as in build A.                                          *)
(*                                                                         *)
(* Numbers: prices, rates and quantities are integers.  Configuration      *)
(* numbers (multipliers, absolute bounds, interval) are counted in         *)
(* hundredths (Scale), so 0.85 is 85 and 3600 is 360000.  A generator      *)
(* output is the float v / 2^32; the price computation reads its top bits  *)
(* only, as the fraction (v div 2^26) / 64.                                *)
(***************************************************************************)
EXTENDS Integers, Sequences, FiniteSets, TLC

(* ------------------------------------------------------------------ *)
(* Bounds of the model                                                 *)
(* ------------------------------------------------------------------ *)
\* cycles (immediate and timer-triggered) in one behaviour
MaxCycles == 3
\* invocations of postDBLoad by the host
MaxStarts == 2
\* mutations of the store by the host or by other mods
MaxHostEdits == 1

(* ------------------------------------------------------------------ *)
(* JavaScript values as the engine meets them in reference tables and  *)
(* in the user configuration                                           *)
(* ------------------------------------------------------------------ *)
\* a JS number n
Num(n) == [t |-> "num", n |-> n]
\* a string holding the decimal digits of n (possibly with a sign), e.g. "100"
Str(n) == [t |-> "str", n |-> n]
\* a non-empty string that is no number, e.g. "abc": Number(...) is NaN
NaNStr == [t |-> "nanstr", n |-> 0]
Null == [t |-> "null", n |-> 0]
\* true and false
Bool(b) == [t |-> "bool", n |-> IF b THEN 1 ELSE 0]
Undefined == [t |-> "undef", n |-> 0]

\* ToBoolean: what `!v`, `v || w` and `v && w` test
Truthy(v) ==
  CASE v.t \in {"num", "bool"} -> v.n # 0
    [] v.t = "str" -> TRUE
    [] v.t = "nanstr" -> TRUE
    [] OTHER -> FALSE

\* v || w
OrElse(v, w) == IF Truthy(v) THEN v ELSE w

\* v > 0 after ToNumber (NaN > 0 is false; null is 0)
GtZero(v) == v.t \in {"num", "str"} /\ v.n > 0

\* v <= 0 after ToNumber (NaN <= 0 is false; null is 0)
LeZero(v) ==
  CASE v.t \in {"num", "str"} -> v.n <= 0
    [] v.t = "null" -> TRUE
    [] OTHER -> FALSE

\* Number(v) for a string v, as a JS value; a non-numeric string gives NaN,
\* kept as NaNStr's n = 0 with tag "nan"
NaN == [t |-> "nan", n |-> 0]
NumberOf(v) ==
  CASE v.t = "num" -> v
    [] v.t = "str" -> Num(v.n)
    [] v.t = "null" -> Num(0)
    [] OTHER -> NaN

\* Infinity, which JSON.parse gives for 1e999 and Number for "Infinity": a
\* value above every finite number of the model; -Infinite is -Infinity
Infinite == 2000000000
\* Number.isFinite(n) for a number n
isFinite(n) == -Infinite < n /\ n < Infinite

\* the numeric value a truthy positive price has in arithmetic
\* (baseline * multiplier, rubles / rate coerce a numeric string)
ValueOf(v) == v.n

(* ------------------------------------------------------------------ *)
(* 32-bit unsigned arithmetic on pairs of 16-bit halves                *)
(* ------------------------------------------------------------------ *)
W16 == 2^16
U32(h, l) == [hi |-> h, lo |-> l]

RECURSIVE Xor16(_, _, _)
Xor16(a, b, n) ==
  IF n = 0 THEN 0
  ELSE ((a + b) % 2) + 2 * Xor16(a \div 2, b \div 2, n - 1)

RECURSIVE Or16(_, _, _)
Or16(a, b, n) ==
  IF n = 0 THEN 0
  ELSE (IF (a % 2) + (b % 2) > 0 THEN 1 ELSE 0) + 2 * Or16(a \div 2, b \div 2, n - 1)

Xor32(a, b) == U32(Xor16(a.hi, b.hi, 16), Xor16(a.lo, b.lo, 16))
\* a | k for a constant k < 2^16
OrLow(a, k) == U32(a.hi, Or16(a.lo, k, 16))
Add32(a, b) ==
  LET l == a.lo + b.lo
  IN U32((a.hi + b.hi + (l \div W16)) % W16, l % W16)

RECURSIVE Pow2(_)
Pow2(k) == IF k = 0 THEN 1 ELSE 2 * Pow2(k - 1)

\* a >>> k, 0 < k < 16
Shr32(a, k) ==
  U32(a.hi \div Pow2(k), (a.lo \div Pow2(k)) + (a.hi % Pow2(k)) * Pow2(16 - k))

\* Math.imul(a, b): the low 32 bits of the product, byte by byte
Imul32(a, b) ==
  LET a0 == a.lo % 256  a1 == a.lo \div 256  a2 == a.hi % 256  a3 == a.hi \div 256
      b0 == b.lo % 256  b1 == b.lo \div 256  b2 == b.hi % 256  b3 == b.hi \div 256
      c0 == a0 * b0
      c1 == a0 * b1 + a1 * b0 + (c0 \div 256)
      c2 == a0 * b2 + a1 * b1 + a2 * b0 + (c1 \div 256)
      c3 == a0 * b3 + a1 * b2 + a2 * b1 + a3 * b0 + (c2 \div 256)
  IN U32((c3 % 256) * 256 + (c2 % 256), (c1 % 256) * 256 + (c0 % 256))

(* ------------------------------------------------------------------ *)
(* Deterministic generator                                             *)
(* ------------------------------------------------------------------ *)
\* seed >>> 0 for a non-negative integer seed below 2^31
seededRandom(seed) == U32((seed \div W16) % W16, seed % W16)

\* one call of the closure: the new internal state.  The source keeps the
\* mixed value in `state` itself, so the state after the call is the value
\* of `state` after the third statement.
rngAdvance(state) ==
  LET s1 == Add32(state, U32(27947, 31221))
      s2 == Imul32(Xor32(s1, Shr32(s1, 15)), OrLow(s1, 1))
  IN Xor32(s2, Add32(s2, Imul32(Xor32(s2, Shr32(s2, 7)), OrLow(s2, 61))))

\* a faulty variant of rngOutput without the final `>>> 0`: the value stays
\* a signed 32-bit integer, below 0 when its top bit is set
OutputSigned(state) ==
  LET s3 == rngAdvance(state)
      out == Xor32(s3, Shr32(s3, 14))
  IN U32(IF out.hi >= W16 \div 2 THEN out.hi - W16 ELSE out.hi, out.lo)

\* the 32-bit value the call returns, before the division by 4294967296
rngOutput(state) ==
  LET s3 == rngAdvance(state) IN Xor32(s3, Shr32(s3, 14))

\* resolution at which the price computation reads the returned float
RngDen == 2^6
\* a faulty variant of rngFraction that does not scale the returned value
\* down to [0, 1)
FractionUnscaled(state) == rngOutput(state).hi

\* numerator of the returned float over RngDen
rngFraction(state) == rngOutput(state).hi \div (W16 \div RngDen)

(* ------------------------------------------------------------------ *)
(* Identifiers                                                         *)
(* ------------------------------------------------------------------ *)
\* what a missing _tpl, _id, Id or id field reads as; also the key under
\* which a Map or an object table files the value undefined
NoId == "undefined"
\* the three currency templates of the default configuration
RubleTpl == "rub"
DollarTpl == "usd"
EuroTpl == "eur"

(* ------------------------------------------------------------------ *)
(* Maps (JS Map objects): functions on the set of keys present         *)
(* ------------------------------------------------------------------ *)
EmptyMap == [k \in {} |-> Null]
MapHas(m, k) == k \in DOMAIN m
MapSet(m, k, v) == [x \in (DOMAIN m) \cup {k} |-> IF x = k THEN v ELSE m[x]]

(* ------------------------------------------------------------------ *)
(* Reference tables: db.templates.prices and db.templates.handbook.Items *)
(* A table is absent (shape "none"), an array of records (shape        *)
(* "list", rows a sequence) or an object keyed by identifier (shape    *)
(* "map", rows a function).  A row is a record of the fields the       *)
(* lookups read, Undefined where the field is missing; isNull marks a  *)
(* null element of an array.                                           *)
(* ------------------------------------------------------------------ *)
Row(bigId, smallId, bigPrice, smallPrice) ==
  [isNull |-> FALSE, Id |-> bigId, id |-> smallId, Price |-> bigPrice,
   price |-> smallPrice, DefaultPrice |-> Undefined, basePrice |-> Undefined]
NullRow ==
  [isNull |-> TRUE, Id |-> NoId, id |-> NoId, Price |-> Undefined,
   price |-> Undefined, DefaultPrice |-> Undefined, basePrice |-> Undefined]
NoTable == [shape |-> "none", rows |-> <<>>]
ListTable(rows) == [shape |-> "list", rows |-> rows]
MapTable(rows) == [shape |-> "map", rows |-> rows]

\* rows.find(p => p.Id === templateId || p.id === templateId): the index of
\* the first match, 0 when there is none, -1 when the callback raises a
\* TypeError on a null element met before any match
RECURSIVE FindRow(_, _, _)
FindRow(rows, templateId, i) ==
  IF i > Len(rows) THEN 0
  ELSE IF rows[i].isNull THEN -1
  ELSE IF rows[i].Id = templateId \/ rows[i].id = templateId THEN i
  ELSE FindRow(rows, templateId, i + 1)

\* the outcome of a lookup: the engine after it, the value returned, and
\* whether it raised
LookupResult(e, val, raised) == [e |-> e, val |-> val, raised |-> raised]

\* return this.priceCache.get(templateId): the tables are not read
Hit(e, templateId) ==
  LookupResult([e EXCEPT !.results = @ \cup {<<templateId, e.priceCache[templateId]>>}],
               e.priceCache[templateId], FALSE)

\* a faulty variant of Memoize that stores nothing
MemoizeSkipped(e, templateId, v) ==
  LookupResult([e EXCEPT !.scanned = @ \cup {templateId},
                         !.results = @ \cup {<<templateId, v>>}], v, FALSE)

\* this.priceCache.set(templateId, v); return v, after the tables were read
Memoize(e, templateId, v) ==
  LookupResult([e EXCEPT !.priceCache = MapSet(@, templateId, v),
                         !.scanned = @ \cup {templateId},
                         !.results = @ \cup {<<templateId, v>>}], v, FALSE)

\* a TypeError leaves the lookup while it reads the tables
Raise(e, templateId) ==
  LookupResult([e EXCEPT !.scanned = @ \cup {templateId}], Null, TRUE)

\* the lookup of templateId went on to the handbook table (lines 89 / 496)
Consulted(e, templateId) == [e EXCEPT !.handbookReads = @ \cup {templateId}]

\* build A: prices table part of _lookupPrice (lines 75-86); raised, or the
\* value of `price` after it
PricesPartA(db, templateId) ==
  LET prices == db.prices IN
  IF prices.shape = "list" THEN
    LET i == FindRow(prices.rows, templateId, 1) IN
    IF i = -1 THEN [raised |-> TRUE, price |-> Null]
    ELSE IF i = 0 THEN [raised |-> FALSE, price |-> Undefined]
    ELSE [raised |-> FALSE, price |-> OrElse(prices.rows[i].Price, prices.rows[i].price)]
  ELSE IF prices.shape = "map" /\ templateId \in DOMAIN prices.rows THEN
    LET entry == prices.rows[templateId]
        p == OrElse(entry.Price, OrElse(entry.price, OrElse(entry.DefaultPrice, entry.basePrice)))
    IN [raised |-> FALSE, price |-> IF p.t \in {"str", "nanstr"} THEN NumberOf(p) ELSE p]
  ELSE [raised |-> FALSE, price |-> Null]

\* build A: handbook part of _lookupPrice (lines 89-99)
HandbookPartA(db, templateId) ==
  LET handbook == db.handbook IN
  IF handbook.shape = "list" THEN
    LET i == FindRow(handbook.rows, templateId, 1) IN
    IF i = -1 THEN [raised |-> TRUE, price |-> Null]
    ELSE IF i = 0 THEN [raised |-> FALSE, price |-> Undefined]
    ELSE LET p == OrElse(handbook.rows[i].Price, handbook.rows[i].price)
         IN [raised |-> FALSE, price |-> IF p.t \in {"str", "nanstr"} THEN NumberOf(p) ELSE p]
  ELSE IF templateId \in DOMAIN handbook.rows THEN
    LET p == OrElse(handbook.rows[templateId].Price, handbook.rows[templateId].price)
    IN [raised |-> FALSE, price |-> IF p.t \in {"str", "nanstr"} THEN NumberOf(p) ELSE p]
  ELSE [raised |-> FALSE, price |-> Undefined]

\* build A, line 102: (price && price > 0) ? price : null
FinalPrice(price) == IF Truthy(price) /\ GtZero(price) THEN price ELSE Null

\* build A, lines 101-104, with `second` the outcome of the handbook part
AfterHandbookA(e, templateId, second) ==
  IF second.raised THEN Raise(Consulted(e, templateId), templateId)
  ELSE Memoize(Consulted(e, templateId), templateId, FinalPrice(second.price))

\* build A, lines 88-104, with `first` the outcome of the prices part
AfterPricesA(e, db, templateId, first) ==
  IF first.raised THEN Raise(e, templateId)
  ELSE IF ~Truthy(first.price) /\ db.handbook.shape # "none"
  THEN AfterHandbookA(e, templateId, HandbookPartA(db, templateId))
  ELSE Memoize(e, templateId, FinalPrice(first.price))

\* a faulty variant of _lookupPrice that reads the tables on every call
LookupWithoutCache(e, db, templateId) ==
  AfterPricesA(e, db, templateId, PricesPartA(db, templateId))

\* build A: _lookupPrice(db, templateId) on the engine e
_lookupPrice(e, db, templateId) ==
  IF MapHas(e.priceCache, templateId) THEN Hit(e, templateId)
  ELSE AfterPricesA(e, db, templateId, PricesPartA(db, templateId))

\* build B: a found array record's price (lines 485-486 and 499-500):
\* Price or price when it is a number above 0, else nothing
NumberFieldB(row) ==
  IF row.Price.t = "num" /\ row.Price.n > 0 THEN row.Price
  ELSE IF row.price.t = "num" /\ row.price.n > 0 THEN row.price
  ELSE Null

\* build B: an object entry's extracted value (lines 490-491 and 504-505):
\* a number above 0, or Number(s) of a string s that parses, of any sign
ExtractedB(v) ==
  IF v.t = "num" /\ v.n > 0 THEN v
  ELSE IF v.t = "str" THEN NumberOf(v)
  ELSE Null

\* build B: prices table part (lines 482-493); raised, or resolvedPrice
PricesPartB(db, templateId) ==
  LET priceData == db.prices IN
  IF priceData.shape = "list" THEN
    LET i == FindRow(priceData.rows, templateId, 1) IN
    IF i = -1 THEN [raised |-> TRUE, price |-> Null]
    ELSE IF i = 0 THEN [raised |-> FALSE, price |-> Null]
    ELSE [raised |-> FALSE, price |-> NumberFieldB(priceData.rows[i])]
  ELSE IF priceData.shape = "map" /\ templateId \in DOMAIN priceData.rows THEN
    LET priceEntry == priceData.rows[templateId]
    IN [raised |-> FALSE,
        price |-> ExtractedB(OrElse(priceEntry.Price, OrElse(priceEntry.price,
                               OrElse(priceEntry.DefaultPrice, priceEntry.basePrice))))]
  ELSE [raised |-> FALSE, price |-> Null]

\* build B: handbook part (lines 495-507), entered with resolvedPrice falsy
HandbookPartB(db, templateId, resolvedPrice) ==
  LET handbookItems == db.handbook IN
  IF handbookItems.shape = "list" THEN
    LET i == FindRow(handbookItems.rows, templateId, 1) IN
    IF i = -1 THEN [raised |-> TRUE, price |-> Null]
    ELSE IF i = 0 THEN [raised |-> FALSE, price |-> resolvedPrice]
    ELSE LET p == NumberFieldB(handbookItems.rows[i])
         IN [raised |-> FALSE, price |-> IF p = Null THEN resolvedPrice ELSE p]
  ELSE IF handbookItems.shape = "map" /\ templateId \in DOMAIN handbookItems.rows THEN
    LET handbookEntry == handbookItems.rows[templateId]
        p == ExtractedB(OrElse(handbookEntry.Price, handbookEntry.price))
    IN [raised |-> FALSE, price |-> IF p = Null THEN resolvedPrice ELSE p]
  ELSE [raised |-> FALSE, price |-> resolvedPrice]

\* build B, lines 509-520, with `second` the outcome of the handbook part:
\* a TypeError is caught and null is memoized
AfterHandbookB(e, templateId, second) ==
  Memoize(Consulted(e, templateId), templateId, IF second.raised THEN Null ELSE second.price)

\* build B, lines 495-520, with `first` the outcome of the prices part
AfterPricesB(e, db, templateId, first) ==
  IF first.raised THEN Memoize(e, templateId, Null)
  ELSE IF Truthy(first.price) THEN Memoize(e, templateId, first.price)
  ELSE AfterHandbookB(e, templateId, HandbookPartB(db, templateId, first.price))

\* build B: _lookupTemplatePriceFromDatabase(databaseTables, templateId)
_lookupTemplatePriceFromDatabase(e, db, templateId) ==
  IF MapHas(e.priceCache, templateId) THEN Hit(e, templateId)
  ELSE AfterPricesB(e, db, templateId, PricesPartB(db, templateId))

\* the lookup of the running build
LookupPrice(b, e, db, templateId) ==
  IF b = "A" THEN _lookupPrice(e, db, templateId)
  ELSE _lookupTemplatePriceFromDatabase(e, db, templateId)

(* ------------------------------------------------------------------ *)
(* Rounding                                                            *)
(* ------------------------------------------------------------------ *)
\* round(value, mode) for value = num / den, den > 0:
\* Math.floor, Math.ceil, or Math.round (halves go up)
round(num, den, mode) ==
  IF mode = "floor" THEN num \div den
  ELSE IF mode = "ceil" THEN -((-num) \div den)
  ELSE (2 * num + den) \div (2 * den)

Max(a, b) == IF a >= b THEN a ELSE b
Min(a, b) == IF a <= b THEN a ELSE b

(* ------------------------------------------------------------------ *)
(* The engine's state while a cycle runs: the three caches, the        *)
(* generator, the store's traders, and a record of what the cycle did  *)
(* (table reads, quantities written, generator calls)                  *)
(* ------------------------------------------------------------------ *)
Scale == 100

\* a faulty variant of multiplierNum that leaves out the `+ min`
MultiplierWithoutMin(config, rng) ==
  rngFraction(rng) * (config.maxMultiplier - config.minMultiplier)

\* _randomizePrice(baseline): the rounded price.  The multiplier is
\* (fraction / RngDen) * (max - min) + min with min and max in hundredths,
\* so price = baseline * multNum / (Scale * RngDen).
multiplierNum(config, rng) ==
  rngFraction(rng) * (config.maxMultiplier - config.minMultiplier)
    + config.minMultiplier * RngDen

\* lines 185-187 / 604-606: Math.max(price, minAbsolute) when it is above 0;
\* price is a numerator over Scale * RngDen
AtLeast(price, minAbsolute) ==
  IF minAbsolute > 0 THEN Max(price, minAbsolute * RngDen) ELSE price

\* a faulty variant of AtMost that applies no upper bound
AtMostSkipped(price, maxAbsolute) == price

\* lines 188-190 / 607-609: Math.min(price, maxAbsolute) when it is above 0
AtMost(price, maxAbsolute) ==
  IF maxAbsolute > 0 THEN Min(price, maxAbsolute * RngDen) ELSE price

_randomizePrice(config, rng, baseline) ==
  round(AtMost(AtLeast(ValueOf(baseline) * multiplierNum(config, rng), config.minAbsolute),
               config.maxAbsolute),
        Scale * RngDen, config.rounding)

\* a conversion's outcome: the engine after it, the amount or Null, and
\* whether it raised
Conversion(e, val, raised) == [e |-> e, val |-> val, raised |-> raised]

\* a faulty variant of AtCachedRate that tests `!rate` only
AtCachedRateUnchecked(e, config, rubles, currencyTpl) ==
  Conversion(e, IF ~Truthy(e.currencyCache[currencyTpl]) THEN Null
                ELSE Num(round(rubles, ValueOf(e.currencyCache[currencyTpl]),
                               config.ccRounding)), FALSE)

\* lines 150-156 / 574-580: the amount at the cached rate, Null when the
\* rate is missing or not above 0
AtCachedRate(e, config, rubles, currencyTpl) ==
  LET rate == e.currencyCache[currencyTpl] IN
  Conversion(e, IF ~Truthy(rate) \/ LeZero(rate) THEN Null
                ELSE Num(round(rubles, ValueOf(rate), config.ccRounding)), FALSE)

\* lines 147 / 571: this.currencyCache.set(currencyTpl, rate || null)
RateCached(look, currencyTpl) ==
  [look.e EXCEPT !.currencyCache = MapSet(@, currencyTpl, OrElse(look.val, Null))]

\* build A: _convertCurrency from line 147 on, with `look` the outcome of
\* the rate's lookup; its exception leaves the conversion
AfterRateLookupA(look, config, rubles, currencyTpl) ==
  IF look.raised THEN Conversion(look.e, Null, TRUE)
  ELSE AtCachedRate(RateCached(look, currencyTpl), config, rubles, currencyTpl)

\* build A: _convertCurrency(db, rubles, currencyTpl) on the engine e
_convertCurrency(e, db, config, rubles, currencyTpl) ==
  IF MapHas(e.currencyCache, currencyTpl) THEN AtCachedRate(e, config, rubles, currencyTpl)
  ELSE AfterRateLookupA(_lookupPrice(e, db, currencyTpl), config, rubles, currencyTpl)

\* build B: from line 571 on; an exception is caught and null returned
AfterRateLookupB(look, config, rubleAmount, targetCurrencyTemplateId) ==
  IF look.raised THEN Conversion(look.e, Null, FALSE)
  ELSE AtCachedRate(RateCached(look, targetCurrencyTemplateId), config, rubleAmount,
                    targetCurrencyTemplateId)

\* build B: _convertRublesToTargetCurrency
_convertRublesToTargetCurrency(e, db, config, rubleAmount, targetCurrencyTemplateId) ==
  IF MapHas(e.currencyCache, targetCurrencyTemplateId)
  THEN AtCachedRate(e, config, rubleAmount, targetCurrencyTemplateId)
  ELSE AfterRateLookupB(_lookupTemplatePriceFromDatabase(e, db, targetCurrencyTemplateId),
                        config, rubleAmount, targetCurrencyTemplateId)

ConvertCurrency(b, e, db, config, rubles, currencyTpl) ==
  IF b = "A" THEN _convertCurrency(e, db, config, rubles, currencyTpl)
  ELSE _convertRublesToTargetCurrency(e, db, config, rubles, currencyTpl)

(* ------------------------------------------------------------------ *)
(* Trade offers.  An offer is an object {_tpl, count} (kind "obj"), a  *)
(* null element (kind "null") or a primitive such as a string (kind    *)
(* "prim": reading ._tpl gives undefined, assigning .count raises a    *)
(* TypeError because both files are in strict mode).                   *)
(* ------------------------------------------------------------------ *)
Offer(tpl, count) == [kind |-> "obj", _tpl |-> tpl, count |-> count]
PrimOffer == [kind |-> "prim", _tpl |-> NoId, count |-> 0]
NullOffer == [kind |-> "null", _tpl |-> NoId, count |-> 0]

CurrencyValues(config) ==
  {config.currencyTpls.ruble, config.currencyTpls.dollar, config.currencyTpls.eur}

\* _findCurrencyOffer(offers) / _findCurrencyOfferInTradeList: the index of
\* the first offer whose _tpl is a configured currency, 0 when none
RECURSIVE _findCurrencyOffer(_, _, _)
_findCurrencyOffer(config, offers, i) ==
  IF i > Len(offers) THEN 0
  ELSE IF offers[i].kind = "obj" /\ offers[i]._tpl # NoId
          /\ offers[i]._tpl \in CurrencyValues(config) THEN i
  ELSE _findCurrencyOffer(config, offers, i + 1)

\* a quantity to write: the engine after computing it, whether computing
\* it raised, the price in rubles it comes from, the conversion's result
\* (Undefined when none was asked for) and the quantity itself
Quantity(e, raised, rubles, converted, count) ==
  [e |-> e, raised |-> raised, rubles |-> rubles, converted |-> converted, count |-> count]

\* a faulty variant of Counted that writes the amount as computed, with no
\* floor of 1
CountedWithoutFloor(c, rubles) ==
  Quantity(c.e, c.raised, rubles, c.val, IF Truthy(c.val) THEN c.val.n ELSE rubles)

\* lines 214 / 624: Math.max(1, converted || Math.floor(rubles)) with c the
\* conversion's outcome
Counted(c, rubles) ==
  Quantity(c.e, c.raised, rubles, c.val, Max(1, IF Truthy(c.val) THEN c.val.n ELSE rubles))

\* the quantity to write to the target offer, and the engine after the
\* conversion it may need (lines 210-215, 620-625, 632-637)
NewCount(b, e, db, config, target, rubles) ==
  IF target._tpl = config.currencyTpls.ruble
  THEN Quantity(e, FALSE, rubles, Undefined, Max(1, rubles))
  ELSE Counted(ConvertCurrency(b, e, db, config, rubles, target._tpl), rubles)

\* a faulty variant of TargetIndex that takes the first offer in either mode
TargetFirst(config, offers) ==
  IF Len(offers) > 0 /\ offers[1].kind # "null" THEN 1 ELSE 0

\* the index of the target offer (lines 201-207, 617-618, 629-630), 0 when
\* the update returns false
TargetIndex(config, offers) ==
  IF config.onlyCashTrades THEN _findCurrencyOffer(config, offers, 1)
  ELSE IF Len(offers) > 0 /\ offers[1].kind # "null" THEN 1 ELSE 0

\* a faulty variant of Written that assigns the count of every offer object
\* of the list
WrittenToAll(offers, i, n) ==
  IF n.raised \/ offers[i].kind = "prim"
  THEN [e |-> n.e, offers |-> offers, wrote |-> FALSE, raised |-> TRUE]
  ELSE [e |-> [n.e EXCEPT !.writes = Append(@, [rubles |-> n.rubles,
                                                converted |-> n.converted,
                                                count |-> n.count])],
        offers |-> [k \in DOMAIN offers |->
                      IF offers[k].kind = "obj" THEN [offers[k] EXCEPT !.count = n.count]
                      ELSE offers[k]],
        wrote |-> TRUE, raised |-> FALSE]

\* a faulty variant of Written that puts a new ruble offer in the target's
\* place instead of assigning to its count
WrittenAsNewOffer(offers, i, n) ==
  IF n.raised \/ offers[i].kind = "prim"
  THEN [e |-> n.e, offers |-> offers, wrote |-> FALSE, raised |-> TRUE]
  ELSE [e |-> [n.e EXCEPT !.writes = Append(@, [rubles |-> n.rubles,
                                                converted |-> n.converted,
                                                count |-> n.count])],
        offers |-> [offers EXCEPT ![i] = Offer(RubleTpl, n.count)],
        wrote |-> TRUE, raised |-> FALSE]

\* the assignment target.count = n.count: a TypeError on a primitive
Written(offers, i, n) ==
  IF n.raised \/ offers[i].kind = "prim"
  THEN [e |-> n.e, offers |-> offers, wrote |-> FALSE, raised |-> TRUE]
  ELSE [e |-> [n.e EXCEPT !.writes = Append(@, [rubles |-> n.rubles,
                                                converted |-> n.converted,
                                                count |-> n.count])],
        offers |-> [offers EXCEPT ![i].count = n.count],
        wrote |-> TRUE, raised |-> FALSE]

\* the update with the target offer at index i
UpdateAt(b, e, db, config, offers, rubles, i) ==
  IF i = 0 THEN [e |-> e, offers |-> offers, wrote |-> FALSE, raised |-> FALSE]
  ELSE Written(offers, i, NewCount(b, e, db, config, offers[i], rubles))

\* _updateOffer(offers, rubles, db) / _updateTradeOfferPrice: the offers after
\* it, the engine after it, whether a write occurred, whether it raised
_updateOffer(b, e, db, config, offers, rubles) ==
  UpdateAt(b, e, db, config, offers, rubles, TargetIndex(config, offers))

(* ------------------------------------------------------------------ *)
(* The store's traders.  db.traders is an object: order lists its keys *)
(* in iteration order, at gives each trader.  A trader has a nickname  *)
(* (a string as a sequence of characters, absent, or a number), an     *)
(* assort.items that is an array (kind "list"), a non-iterable object  *)
(* (kind "object") or absent (kind "none"), and a barter_scheme that   *)
(* maps an item _id to its scheme.  A scheme is an array of barter     *)
(* options, each an array of offers (nested), or a bare array of       *)
(* offers (flat: opts holds that one array).                           *)
(* ------------------------------------------------------------------ *)
Item(id, tpl) == [_id |-> id, _tpl |-> tpl]
Scheme(opts) == [nested |-> TRUE, opts |-> opts]
FlatScheme(offers) == [nested |-> FALSE, opts |-> <<offers>>]
Nickname(chars) == [k |-> "str", s |-> chars]
NoNickname == [k |-> "none", s |-> <<>>]
NumberNickname == [k |-> "num", s |-> <<>>]
Trader(nickname, kind, items, schemes) ==
  [nickname |-> nickname, items |-> [kind |-> kind, list |-> items], barter_scheme |-> schemes]

UpperCase == <<"A", "B", "C", "D", "E", "F", "G", "H", "I", "J", "K", "L", "M",
               "N", "O", "P", "Q", "R", "S", "T", "U", "V", "W", "X", "Y", "Z">>
LowerCase == <<"a", "b", "c", "d", "e", "f", "g", "h", "i", "j", "k", "l", "m",
               "n", "o", "p", "q", "r", "s", "t", "u", "v", "w", "x", "y", "z">>
toLowerCaseChar(c) ==
  IF \E i \in 1..Len(UpperCase) : UpperCase[i] = c
  THEN LowerCase[CHOOSE i \in 1..Len(UpperCase) : UpperCase[i] = c]
  ELSE c
toLowerCase(s) == [i \in 1..Len(s) |-> toLowerCaseChar(s[i])]
includes(s, pattern) ==
  \E i \in 1..(Len(s) - Len(pattern) + 1) : SubSeq(s, i, i + Len(pattern) - 1) = pattern

MatchesKnownPattern(lower) ==
  \/ includes(lower, <<"a", "i", "o">>)
  \/ includes(lower, <<"b", "l", "u", "e", "h", "e", "a", "d">>)
  \/ includes(lower, <<"a", "i", "o", "t", "r", "a", "d", "e", "r">>)

\* the result of a discovery: the identifiers found, or raised
RECURSIVE DiscoverFrom(_, _, _, _)
DiscoverFrom(b, traders, i, found) ==
  IF i > Len(traders.order) THEN [found |-> found, raised |-> FALSE]
  ELSE
    LET traderId == traders.order[i]
        nick == traders.at[traderId].nickname
    IN
    \* build A calls toLowerCase on a truthy non-string: TypeError;
    \* build B wraps the nickname in String(...)
    IF nick.k = "num" /\ b = "A" THEN [found |-> found, raised |-> TRUE]
    ELSE IF nick.k = "str" /\ MatchesKnownPattern(toLowerCase(nick.s))
    THEN DiscoverFrom(b, traders, i + 1, Append(found, traderId))
    ELSE DiscoverFrom(b, traders, i + 1, found)

\* build A: _discoverTraders(db); db.traders of an unavailable store raises
_discoverTraders(db) ==
  IF ~db.avail THEN [found |-> <<>>, raised |-> TRUE]
  ELSE DiscoverFrom("A", db.traders, 1, <<>>)

\* build B: _autoDiscoverRelevantTraders(databaseTables)
_autoDiscoverRelevantTraders(db) ==
  IF ~db.avail THEN [found |-> <<>>, raised |-> TRUE]
  ELSE DiscoverFrom("B", db.traders, 1, <<>>)

\* the distinct truthy _tpl of a list of items added to a Set kept in
\* insertion order
RECURSIVE AddTemplates(_, _, _)
AddTemplates(items, i, acc) ==
  IF i > Len(items) THEN acc
  ELSE IF items[i]._tpl # NoId /\ ~(\E j \in 1..Len(acc) : acc[j] = items[i]._tpl)
  THEN AddTemplates(items, i + 1, Append(acc, items[i]._tpl))
  ELSE AddTemplates(items, i + 1, acc)

\* the first loop of the baseline build (lines 119-128, 535-548): the
\* templates of the target traders, or raised
RECURSIVE CollectTemplates(_, _, _, _, _)
CollectTemplates(b, db, traderIds, i, acc) ==
  IF i > Len(traderIds) THEN [templates |-> acc, raised |-> FALSE]
  ELSE IF ~db.avail THEN [templates |-> acc, raised |-> TRUE]
  ELSE IF traderIds[i] \notin DOMAIN db.traders.at
  THEN CollectTemplates(b, db, traderIds, i + 1, acc)
  ELSE
    LET items == db.traders.at[traderIds[i]].items IN
    IF items.kind = "none" THEN CollectTemplates(b, db, traderIds, i + 1, acc)
    ELSE IF items.kind = "object"
    \* build A iterates a non-iterable: TypeError; build B tests Array.isArray
    THEN IF b = "A" THEN [templates |-> acc, raised |-> TRUE]
         ELSE CollectTemplates(b, db, traderIds, i + 1, acc)
    ELSE CollectTemplates(b, db, traderIds, i + 1, AddTemplates(items.list, 1, acc))

\* the second loop of the baseline build (lines 131-136, 551-561), from
\* template i; AfterBaselineLookup is its body after the lookup
RECURSIVE FillBaselines(_, _, _, _, _)
RECURSIVE AfterBaselineLookup(_, _, _, _, _)
AfterBaselineLookup(b, look, db, templates, i) ==
  IF look.raised THEN [e |-> look.e, raised |-> TRUE]
  ELSE IF Truthy(look.val) /\ GtZero(look.val)
  THEN FillBaselines(b, [look.e EXCEPT !.baselinePrices = MapSet(@, templates[i], look.val)],
                     db, templates, i + 1)
  ELSE FillBaselines(b, look.e, db, templates, i + 1)

FillBaselines(b, e, db, templates, i) ==
  IF i > Len(templates) THEN [e |-> e, raised |-> FALSE]
  ELSE AfterBaselineLookup(b, LookupPrice(b, e, db, templates[i]), db, templates, i)

\* a faulty variant of Cleared that leaves the map as it is
ClearSkipped(e) == e

\* this.baselinePrices.clear()
Cleared(e) == [e EXCEPT !.baselinePrices = EmptyMap]

\* build A: the second loop, unless the first one raised
AfterCollect(e, db, all) ==
  IF all.raised THEN [e |-> e, raised |-> TRUE]
  ELSE FillBaselines("A", e, db, all.templates, 1)

\* a faulty variant of _buildBaselines that rebuilds on every call
RebuildAlways(e, db, config, traderIds) ==
  AfterCollect(Cleared(e), db, CollectTemplates("A", db, traderIds, 1, <<>>))

\* build A: _buildBaselines(db, traderIds)
_buildBaselines(e, db, config, traderIds) ==
  IF config.stickToBaseline /\ DOMAIN e.baselinePrices # {}
  THEN [e |-> e, raised |-> FALSE]
  ELSE AfterCollect(Cleared(e), db, CollectTemplates("A", db, traderIds, 1, <<>>))

\* a faulty variant of _buildBaselinePricesFromTraders that keeps the
\* entries it has and adds one for every template it has none for
RetainAndAdd(e, db, config, targetTraderIds) ==
  IF ~db.avail THEN [e |-> e, raised |-> TRUE]
  ELSE FillBaselines("B", e, db,
                     CollectTemplates("B", db, targetTraderIds, 1, <<>>).templates, 1)

\* build B: _buildBaselinePricesFromTraders(databaseTables, targetTraderIds, false)
_buildBaselinePricesFromTraders(e, db, config, targetTraderIds) ==
  IF config.stickToBaseline /\ DOMAIN e.baselinePrices # {}
  THEN [e |-> e, raised |-> FALSE]
  \* databaseTables.traders of an unavailable store raises before the loop
  ELSE IF ~db.avail THEN [e |-> Cleared(e), raised |-> TRUE]
  ELSE FillBaselines("B", Cleared(e), db,
                     CollectTemplates("B", db, targetTraderIds, 1, <<>>).templates, 1)

(* ------------------------------------------------------------------ *)
(* One trader                                                          *)
(* ------------------------------------------------------------------ *)
\* the offers a scheme's update works on: scheme[0] when that is an array,
\* else the scheme itself
TargetOffers(scheme) ==
  IF Len(scheme.opts) = 0 THEN <<>> ELSE scheme.opts[1]

\* a faulty variant of Advanced that consumes two generator steps
AdvancedTwice(e) == [e EXCEPT !.rng = rngAdvance(rngAdvance(@)), !.calls = @ + 2]

\* one call of this.rng()
Advanced(e) == [e EXCEPT !.rng = rngAdvance(@), !.calls = @ + 1]

\* the body of the loop over the items (lines 253-267, 683-700), from item
\* i; AfterUpdate is the body after the update u of the item's offers
RECURSIVE ProcessItems(_, _, _, _, _, _, _)
RECURSIVE AfterUpdate(_, _, _, _, _, _, _, _)
AfterUpdate(b, u, db, config, traderId, itemId, i, updatedCount) ==
  IF u.raised THEN [e |-> u.e, raised |-> TRUE, updated |-> updatedCount]
  ELSE IF u.wrote
  THEN ProcessItems(b,
         [u.e EXCEPT !.traders.at[traderId].barter_scheme[itemId].opts[1] = u.offers],
         db, config, traderId, i + 1, updatedCount + 1)
  ELSE ProcessItems(b, u.e, db, config, traderId, i + 1, updatedCount)

ProcessItems(b, e, db, config, traderId, i, updatedCount) ==
  LET trader == e.traders.at[traderId]
      items == trader.items.list
  IN
  IF i > Len(items) THEN [e |-> e, raised |-> FALSE, updated |-> updatedCount]
  ELSE IF items[i]._tpl = NoId \/ items[i]._id = NoId
  THEN ProcessItems(b, e, db, config, traderId, i + 1, updatedCount)
  ELSE IF ~MapHas(e.baselinePrices, items[i]._tpl)
          \/ ~Truthy(e.baselinePrices[items[i]._tpl])
          \/ LeZero(e.baselinePrices[items[i]._tpl])
  THEN ProcessItems(b, e, db, config, traderId, i + 1, updatedCount)
  ELSE IF items[i]._id \notin DOMAIN trader.barter_scheme
  THEN ProcessItems(b, Advanced(e), db, config, traderId, i + 1, updatedCount)
  ELSE AfterUpdate(b,
         _updateOffer(b, Advanced(e), db, config,
                      TargetOffers(trader.barter_scheme[items[i]._id]),
                      _randomizePrice(config, e.rng, e.baselinePrices[items[i]._tpl])),
         db, config, traderId, items[i]._id, i, updatedCount)

\* build A: _processTrader(trader, db)
_processTrader(e, db, config, traderId) ==
  LET items == e.traders.at[traderId].items IN
  IF items.kind = "none" THEN [e |-> e, raised |-> FALSE, updated |-> 0]
  \* for ... of a non-iterable object: TypeError
  ELSE IF items.kind = "object" THEN [e |-> e, raised |-> TRUE, updated |-> 0]
  ELSE ProcessItems("A", e, db, config, traderId, 1, 0)

\* build B: _randomizeTraderPrices(targetTrader, databaseTables)
_randomizeTraderPrices(e, db, config, traderId) ==
  LET items == e.traders.at[traderId].items IN
  \* anything but an array is read as the empty list
  IF items.kind # "list" THEN [e |-> e, raised |-> FALSE, updated |-> 0]
  ELSE ProcessItems("B", e, db, config, traderId, 1, 0)

ProcessTrader(b, e, db, config, traderId) ==
  IF b = "A" THEN _processTrader(e, db, config, traderId)
  ELSE _randomizeTraderPrices(e, db, config, traderId)

(* ------------------------------------------------------------------ *)
(* One cycle                                                           *)
(* ------------------------------------------------------------------ *)
\* the try/catch around one trader (lines 306-310, 732-736), with r the
\* outcome of processing it: a failure is logged and goes no further
Logged(r, traderId) ==
  IF r.raised THEN [r.e EXCEPT !.failed = Append(@, traderId)]
  ELSE [r.e EXCEPT !.updated = Append(@, r.updated)]

\* the loop over the active traders (lines 299-311, 726-737), from trader i
RECURSIVE ProcessTraders(_, _, _, _, _, _)

\* a faulty variant of MissingTrader that lets the missing trader end the
\* loop with an exception
MissingTraderRaises(b, e, db, config, traderIds, i) ==
  [e |-> e, raised |-> TRUE]

\* lines 301-304 / 728-731: trader i is not in the store; a warning is
\* logged and the loop continues
MissingTrader(b, e, db, config, traderIds, i) ==
  ProcessTraders(b, [e EXCEPT !.warned = Append(@, traderIds[i])],
                 db, config, traderIds, i + 1)

\* a faulty variant of AfterTrader with no try/catch around the trader: its
\* exception leaves the loop
AfterTraderUncaught(b, r, db, config, traderIds, i) ==
  IF r.raised THEN [e |-> Logged(r, traderIds[i]), raised |-> TRUE]
  ELSE ProcessTraders(b, Logged(r, traderIds[i]), db, config, traderIds, i + 1)

\* lines 306-310 / 732-736, with r the outcome of processing trader i: the
\* loop continues whatever r is
AfterTrader(b, r, db, config, traderIds, i) ==
  ProcessTraders(b, Logged(r, traderIds[i]), db, config, traderIds, i + 1)

ProcessTraders(b, e, db, config, traderIds, i) ==
  IF i > Len(traderIds) THEN [e |-> e, raised |-> FALSE]
  ELSE IF ~db.avail THEN [e |-> e, raised |-> TRUE]
  ELSE IF traderIds[i] \notin DOMAIN e.traders.at
  THEN MissingTrader(b, e, db, config, traderIds, i)
  ELSE AfterTrader(b,
         ProcessTrader(b, [e EXCEPT !.attempted = Append(@, traderIds[i])],
                       db, config, traderIds[i]),
         db, config, traderIds, i)

\* how far a cycle got: "disabled", or raised in "discover", "baseline" or
\* "loop", or "done"; active is the list of traders it worked on
CycleResult(e, stage, raised, active) ==
  [e |-> e, stage |-> stage, raised |-> raised, active |-> active]

Discover(b, db) ==
  IF b = "A" THEN _discoverTraders(db) ELSE _autoDiscoverRelevantTraders(db)

BuildBaselines(b, e, db, config, traderIds) ==
  IF b = "A" THEN _buildBaselines(e, db, config, traderIds)
  ELSE _buildBaselinePricesFromTraders(e, db, config, traderIds)

\* the end of a cycle, with `done` the outcome of the loop over the traders
Finished(done, traderIds) ==
  CycleResult(done.e, IF done.raised THEN "loop" ELSE "done", done.raised, traderIds)

\* lines 298-311 / 725-737, with `built` the outcome of the baseline build
AfterBaselines(b, built, db, config, traderIds) ==
  IF built.raised THEN CycleResult(built.e, "baseline", TRUE, traderIds)
  ELSE Finished(ProcessTraders(b, built.e, db, config, traderIds, 1), traderIds)

\* lines 295-311 / 722-737 with the active traders resolved
WithActive(b, e, db, config, traderIds) ==
  AfterBaselines(b, BuildBaselines(b, e, db, config, traderIds), db, config, traderIds)

\* a faulty variant of AfterDiscovery that takes the discovery's result even
\* when it is empty
AfterDiscoveryAlways(b, e, db, config, discovered) ==
  IF discovered.raised THEN CycleResult(e, "discover", TRUE, <<>>)
  ELSE WithActive(b, e, db, config, discovered.found)

\* lines 290-311 / 719-737, with `discovered` the outcome of the discovery
AfterDiscovery(b, e, db, config, discovered) ==
  IF discovered.raised THEN CycleResult(e, "discover", TRUE, <<>>)
  ELSE WithActive(b, e, db, config,
                  IF Len(discovered.found) > 0 THEN discovered.found ELSE config.traderIds)

\* a faulty variant of _runCycle that does not test config.enabled
RunCycleWhenDisabled(b, e, db, config) ==
  IF config.autoDiscoverTraderIds
  THEN AfterDiscovery(b, [e EXCEPT !.discoveries = @ + 1], db, config, Discover(b, db))
  ELSE WithActive(b, e, db, config, config.traderIds)

\* _runCycle(db) / _executeOneRandomizationCycle(databaseTables)
_runCycle(b, e, db, config) ==
  IF ~config.enabled THEN CycleResult(e, "disabled", FALSE, <<>>)
  ELSE IF config.autoDiscoverTraderIds
  THEN AfterDiscovery(b, [e EXCEPT !.discoveries = @ + 1], db, config, Discover(b, db))
  ELSE WithActive(b, e, db, config, config.traderIds)

(* ------------------------------------------------------------------ *)
(* Configuration loader: loadAndValidateConfig                         *)
(* A user configuration gives each key a JS value, or Undefined when   *)
(* the key is absent (the merge then keeps the default).  Numbers are  *)
(* in hundredths.  traderIds is [isArray, list]; a rounding mode is a  *)
(* string, "" when the key is absent.                                  *)
(* ------------------------------------------------------------------ *)
DefaultCurrencyTpls == [ruble |-> RubleTpl, dollar |-> DollarTpl, eur |-> EuroTpl]
\* DEFAULT_CONFIG / BUILTIN_DEFAULT_CONFIGURATION
DEFAULT_CONFIG ==
  [enabled |-> Bool(TRUE), autoDiscoverTraderIds |-> Bool(TRUE),
   traderIds |-> [isArray |-> TRUE, list |-> <<>>],
   minMultiplier |-> Num(85), maxMultiplier |-> Num(135),
   intervalSeconds |-> Num(3600 * Scale), rounding |-> "nearest",
   onlyCashTrades |-> Bool(TRUE), ccRounding |-> "nearest",
   stickToBaseline |-> Bool(TRUE), minAbsolute |-> Num(0), maxAbsolute |-> Num(0),
   seed |-> Null]

\* mergeConfig(DEFAULT_CONFIG, userConfig): a key the user gives wins
mergeConfig(base, override) ==
  [k \in DOMAIN base |->
     IF k = "traderIds" THEN override[k]
     ELSE IF k \in {"rounding", "ccRounding"}
     THEN (IF override[k] = "" THEN base[k] ELSE override[k])
     ELSE IF override[k].t = "undef" THEN base[k] ELSE override[k]]

\* traderIds.map(String).filter(id => id.length > 0), then Array.from(new Set(...))
RECURSIVE DistinctNonEmpty(_, _, _)
DistinctNonEmpty(list, i, acc) ==
  IF i > Len(list) THEN acc
  ELSE IF list[i] # "" /\ ~(\E j \in 1..Len(acc) : acc[j] = list[i])
  THEN DistinctNonEmpty(list, i + 1, Append(acc, list[i]))
  ELSE DistinctNonEmpty(list, i + 1, acc)

ValidRounding(mode, fallback) ==
  IF mode \in {"nearest", "floor", "ceil"} THEN mode ELSE fallback

Abs(n) == IF n < 0 THEN -n ELSE n
\* Math.floor of a number of hundredths, in hundredths
FloorH(h) == (h \div Scale) * Scale

\* the seed derived from minMultiplier, maxMultiplier and traderIds: the
\* first 32 bits of the MD5 of their JSON text.  MD5 is not computed here;
\* the value is a fixed function of the three fields.
\* (JSON.stringify writes a number that is not finite as null)
DerivedSeed(minMultiplier, maxMultiplier, traderIds) ==
  LET text(n) == IF isFinite(n) THEN Abs(n) ELSE 0
  IN (text(minMultiplier) * 7919 + text(maxMultiplier) * 104 + Len(traderIds) * 31 + 12345)
       % 1000003

\* Number(x) || fallback
NumberOr(v, fallback) ==
  IF NumberOf(v).t = "num" /\ NumberOf(v).n # 0 THEN NumberOf(v).n ELSE fallback

\* an explicit seed that is kept, and a seed the loader derived
\* (config._derivedSeed = true)
KeptSeed(n) == [value |-> n, derived |-> FALSE]
Derived(n) == [value |-> n, derived |-> TRUE]

\* the fields both loaders normalize the same way (booleans, traderIds,
\* rounding modes, the swap of the multipliers and of the absolute bounds)
Normalized(merged, minM, maxM, interval, minA, maxA, seed) ==
  [loaded |-> TRUE,
   enabled |-> Truthy(merged.enabled),
   autoDiscoverTraderIds |-> Truthy(merged.autoDiscoverTraderIds),
   onlyCashTrades |-> Truthy(merged.onlyCashTrades),
   stickToBaseline |-> Truthy(merged.stickToBaseline),
   traderIds |-> IF merged.traderIds.isArray
                 THEN DistinctNonEmpty(merged.traderIds.list, 1, <<>>) ELSE <<>>,
   minMultiplier |-> Min(minM, maxM), maxMultiplier |-> Max(minM, maxM),
   intervalSeconds |-> interval,
   rounding |-> ValidRounding(merged.rounding, DEFAULT_CONFIG.rounding),
   ccRounding |-> ValidRounding(merged.ccRounding, DEFAULT_CONFIG.ccRounding),
   minAbsolute |-> IF maxA > 0 /\ minA > maxA THEN maxA ELSE minA,
   maxAbsolute |-> IF maxA > 0 /\ minA > maxA THEN minA ELSE maxA,
   currencyTpls |-> DefaultCurrencyTpls,
   seed |-> seed.value,
   _derivedSeed |-> seed.derived]

\* build A's loader (src/unnamed/part_001), lines 134-208, on the merged
\* configuration
NormalizeA(merged) ==
  LET minM == NumberOr(merged.minMultiplier, DEFAULT_CONFIG.minMultiplier.n)
      maxM == NumberOr(merged.maxMultiplier, DEFAULT_CONFIG.maxMultiplier.n)
      interval == Abs(FloorH(NumberOr(merged.intervalSeconds, DEFAULT_CONFIG.intervalSeconds.n)))
      minA == Max(0, NumberOr(merged.minAbsolute, 0))
      maxA == Max(0, NumberOr(merged.maxAbsolute, 0))
      ids == IF merged.traderIds.isArray
             THEN DistinctNonEmpty(merged.traderIds.list, 1, <<>>) ELSE <<>>
      numericSeed == NumberOf(merged.seed)
      seed == IF merged.seed.t = "null" \/ numericSeed.t # "num" \/ ~isFinite(numericSeed.n)
              THEN Derived(DerivedSeed(Min(minM, maxM), Max(minM, maxM), ids))
              ELSE KeptSeed(FloorH(Abs(numericSeed.n)) \div Scale)
  IN Normalized(merged, minM, maxM, interval, minA, maxA, seed)

loadAndValidateConfigA(userConfig) == NormalizeA(mergeConfig(DEFAULT_CONFIG, userConfig))

\* a field of build B's loader: Number(x) when finite, else the fallback
FiniteOr(v, fallback) ==
  IF NumberOf(v).t = "num" /\ isFinite(NumberOf(v).n) THEN NumberOf(v).n ELSE fallback

\* build B's loader (src/src/aio-price-randomizer-loader.js), lines 139-187,
\* on the merged configuration
NormalizeB(merged) ==
  LET minM == FiniteOr(merged.minMultiplier, DEFAULT_CONFIG.minMultiplier.n)
      maxM == FiniteOr(merged.maxMultiplier, DEFAULT_CONFIG.maxMultiplier.n)
      interval == IF NumberOf(merged.intervalSeconds).t = "num"
                     /\ isFinite(NumberOf(merged.intervalSeconds).n)
                  THEN FloorH(Abs(NumberOf(merged.intervalSeconds).n))
                  ELSE DEFAULT_CONFIG.intervalSeconds.n
      minA == Max(0, NumberOr(merged.minAbsolute, 0))
      maxA == Max(0, NumberOr(merged.maxAbsolute, 0))
      ids == IF merged.traderIds.isArray
             THEN DistinctNonEmpty(merged.traderIds.list, 1, <<>>) ELSE <<>>
      \* a number is kept; the test /^\\d+$/ of a string seed asks for a
      \* backslash followed by the letter d, which no digit string is
      seed == IF merged.seed.t = "num" /\ isFinite(merged.seed.n)
              THEN KeptSeed(FloorH(Abs(merged.seed.n)) \div Scale)
              ELSE Derived(DerivedSeed(Min(minM, maxM), Max(minM, maxM), ids))
  IN Normalized(merged, minM, maxM, interval, minA, maxA, seed)

loadAndValidateConfigB(userConfig) == NormalizeB(mergeConfig(DEFAULT_CONFIG, userConfig))

loadAndValidateConfig(b, userConfig) ==
  IF b = "A" THEN loadAndValidateConfigA(userConfig) ELSE loadAndValidateConfigB(userConfig)

(* ------------------------------------------------------------------ *)
(* State                                                               *)
(* ------------------------------------------------------------------ *)
VARIABLES
  build,           \* "A" or "B": which build of the repository runs
  userConfig,      \* the user configuration file
  db,              \* the store: avail, traders, prices, handbook
  config,          \* this.config: NoConfig until postDBLoad loads it
  rng,             \* the generator's internal state; NoRng until seeded
  intervalTimer,   \* this.intervalTimer: 0 for null, else the timer's id
  timers,          \* the timers pending in the event loop
  priceCache,      \* this.priceCache / templatePriceCache
  currencyCache,   \* this.currencyCache / currencyConversionRateCache
  baselinePrices,  \* this.baselinePrices / baselinePriceMap
  last,            \* what the last operation did (see Report)
  cycles,          \* cycles run so far
  starts,          \* postDBLoad invocations so far
  edits            \* host edits so far

vars == <<build, userConfig, db, config, rng, intervalTimer, timers, priceCache,
          currencyCache, baselinePrices, last, cycles, starts, edits>>

NoConfig == [loaded |-> FALSE]
NoRng == U32(-1, -1)

\* the engine as a cycle works on it, its record of the cycle empty
Engine ==
  [priceCache |-> priceCache, currencyCache |-> currencyCache,
   baselinePrices |-> baselinePrices, rng |-> rng, traders |-> db.traders,
   scanned |-> {}, handbookReads |-> {}, results |-> {}, writes |-> <<>>, warned |-> <<>>, failed |-> <<>>,
   attempted |-> <<>>, updated |-> <<>>, calls |-> 0, discoveries |-> 0]

\* what an operation reports: op is "none", "postDBLoad", "timer" or "edit";
\* ran says a cycle was run, stage and raised how it ended, escaped whether
\* an exception left the operation; the rest is the cycle's own record
Report(op, ran, c, escaped) ==
  [op |-> op, ran |-> ran, stage |-> c.stage, raised |-> c.raised, escaped |-> escaped,
   active |-> c.active, scanned |-> c.e.scanned, results |-> c.e.results,
   writes |-> c.e.writes,
   warned |-> c.e.warned, failed |-> c.e.failed, attempted |-> c.e.attempted,
   updated |-> c.e.updated, calls |-> c.e.calls, discoveries |-> c.e.discoveries]

NoReport(op) == Report(op, FALSE, CycleResult(Engine, "none", FALSE, <<>>), FALSE)

\* the engine's and the store's state after a cycle
CycleEffects(c) ==
  /\ priceCache' = c.e.priceCache
  /\ currencyCache' = c.e.currencyCache
  /\ baselinePrices' = c.e.baselinePrices
  /\ db' = [db EXCEPT !.traders = c.e.traders]

(* ------------------------------------------------------------------ *)
(* Scheduling                                                          *)
(* ------------------------------------------------------------------ *)
\* the outcome of a start of the scheduling: the cycle it ran, the timers
\* pending after it, this.intervalTimer after it, and whether the cycle's
\* exception left it
Scheduling(c, pending, timer, raised) ==
  [cycle |-> c, timers |-> pending, intervalTimer |-> timer, raised |-> raised]

\* lines 327-338 / 749-755, with c the outcome of the immediate cycle and
\* `cleared` the timers left by lines 319-322: an exception of the cycle
\* leaves before setInterval; newTimer is the id setInterval would return
AfterFirstCycle(c, cfg, cleared, newTimer) ==
  IF c.raised THEN Scheduling(c, cleared, 0, TRUE)
  ELSE IF cfg.intervalSeconds > 0
  THEN Scheduling(c, cleared \cup {newTimer}, newTimer, FALSE)
  ELSE Scheduling(c, cleared, 0, FALSE)

\* a faulty variant of _schedule that does not clear the previous timer
ScheduleWithoutClear(b, e, store, cfg, pending, timer, newTimer) ==
  AfterFirstCycle(_runCycle(b, e, store, cfg), cfg, pending, newTimer)

\* _schedule(db) / _schedulePeriodicRandomization(databaseTables) on the
\* engine e with the configuration cfg
_schedule(b, e, store, cfg, pending, timer, newTimer) ==
  AfterFirstCycle(_runCycle(b, e, store, cfg), cfg,
                  IF timer # 0 THEN pending \ {timer} ELSE pending, newTimer)

\* postDBLoad(container): load the configuration, seed the generator, start
\* the scheduling inside try/catch, so that no exception reaches the host
PostDBLoad ==
  /\ starts < MaxStarts
  /\ cycles < MaxCycles
  /\ \E cfg \in {loadAndValidateConfig(build, userConfig)} :
       \E s \in {_schedule(build, [Engine EXCEPT !.rng = seededRandom(cfg.seed)], db, cfg,
                           timers, intervalTimer, starts + 1)} :
          /\ config' = cfg
          /\ rng' = s.cycle.e.rng
          /\ CycleEffects(s.cycle)
          /\ timers' = s.timers
          /\ intervalTimer' = s.intervalTimer
          /\ last' = Report("postDBLoad", TRUE, s.cycle, FALSE)
  /\ starts' = starts + 1
  /\ cycles' = cycles + 1
  /\ UNCHANGED <<build, userConfig, edits>>

\* a faulty variant of TimerFires with no try/catch in the callback: the
\* cycle's exception is uncaught and ends the process with its timers
TimerFiresUncaught ==
  /\ cycles < MaxCycles
  /\ \E id \in timers :
       \E c \in {_runCycle(build, Engine, db, config)} :
          /\ rng' = c.e.rng
          /\ CycleEffects(c)
          /\ last' = Report("timer", TRUE, c, c.raised)
          /\ timers' = IF c.raised THEN {} ELSE timers
  /\ cycles' = cycles + 1
  /\ UNCHANGED <<build, userConfig, config, intervalTimer, starts, edits>>

\* the callback of setInterval fires: one cycle inside try/catch; the timer
\* stays pending whatever the cycle does
TimerFires ==
  /\ cycles < MaxCycles
  /\ \E id \in timers :
       \E c \in {_runCycle(build, Engine, db, config)} :
          /\ rng' = c.e.rng
          /\ CycleEffects(c)
          /\ last' = Report("timer", TRUE, c, FALSE)
  /\ cycles' = cycles + 1
  /\ UNCHANGED <<build, userConfig, config, intervalTimer, timers, starts, edits>>

(* ------------------------------------------------------------------ *)
(* The host and other mods edit the store between cycles               *)
(* ------------------------------------------------------------------ *)
Edited ==
  /\ edits' = edits + 1
  /\ last' = NoReport("edit")
  /\ UNCHANGED <<build, userConfig, config, rng, intervalTimer, timers, priceCache,
                 currencyCache, baselinePrices, cycles, starts>>

\* the positions <<trader, item _id, offer index>> of the offer objects in
\* the first barter option of a scheme
OfferPositions ==
  {pos \in (DOMAIN db.traders.at) \X {"i1", "i2", "i3", "i4", "i5"} \X (1..2) :
     /\ pos[2] \in DOMAIN db.traders.at[pos[1]].barter_scheme
     /\ Len(db.traders.at[pos[1]].barter_scheme[pos[2]].opts) > 0
     /\ pos[3] <= Len(db.traders.at[pos[1]].barter_scheme[pos[2]].opts[1])
     /\ db.traders.at[pos[1]].barter_scheme[pos[2]].opts[1][pos[3]].kind = "obj"}

\* a live offer quantity is overwritten (here with 0)
HostSetsQuantity ==
  /\ edits < MaxHostEdits
  /\ db.avail
  /\ \E pos \in OfferPositions :
       db' = [db EXCEPT !.traders.at[pos[1]].barter_scheme[pos[2]].opts[1][pos[3]].count = 0]
  /\ Edited

\* the table with the Price of identifier id set to v (its first record in
\* an array); unchanged when the table has no record for id
WithPrice(table, id, v) ==
  IF table.shape = "map" /\ id \in DOMAIN table.rows
  THEN [table EXCEPT !.rows[id].Price = v]
  ELSE IF table.shape = "list" /\ FindRow(table.rows, id, 1) > 0
  THEN [table EXCEPT !.rows[FindRow(table.rows, id, 1)].Price = v]
  ELSE table

\* a reference price changes in the prices table
HostChangesPrice ==
  /\ edits < MaxHostEdits
  /\ db.avail
  /\ \E id \in {"t1", DollarTpl} :
       /\ WithPrice(db.prices, id, Num(7)) # db.prices
       /\ db' = [db EXCEPT !.prices = WithPrice(@, id, Num(7))]
  /\ Edited

\* a trader gets a new item, of a template no trader carried, with a ruble offer
HostAddsItem ==
  /\ edits < MaxHostEdits
  /\ db.avail
  /\ \E t \in DOMAIN db.traders.at :
       /\ db.traders.at[t].items.kind = "list"
       /\ "n1" \notin DOMAIN db.traders.at[t].barter_scheme
       /\ db' = [db EXCEPT
                   !.traders.at[t].items.list = Append(@, Item("n1", "t3")),
                   !.traders.at[t].barter_scheme =
                      MapSet(@, "n1", Scheme(<< <<Offer(RubleTpl, 1)>> >>))]
  /\ Edited

\* a new trader with a matching nickname joins the store
HostAddsTrader ==
  /\ edits < MaxHostEdits
  /\ db.avail
  /\ "z" \notin DOMAIN db.traders.at
  /\ db' = [db EXCEPT
              !.traders.order = Append(@, "z"),
              !.traders.at = MapSet(@, "z",
                 Trader(Nickname(<<"a", "i", "o", "2">>), "list", <<Item("n2", "t3")>>,
                        MapSet(EmptyMap, "n2", Scheme(<< <<Offer(RubleTpl, 1)>> >>))))]
  /\ Edited

\* another mod replaces a trader's assort.items by an object that is no array
HostBreaksAssort ==
  /\ edits < MaxHostEdits
  /\ db.avail
  /\ \E t \in DOMAIN db.traders.at :
       /\ db.traders.at[t].items.kind = "list"
       /\ db' = [db EXCEPT !.traders.at[t].items.kind = "object"]
  /\ Edited

(* ------------------------------------------------------------------ *)
(* Initial states: user configurations and stores                      *)
(* ------------------------------------------------------------------ *)
\* a configuration file that sets nothing
RawDefaults ==
  [enabled |-> Undefined, autoDiscoverTraderIds |-> Undefined,
   traderIds |-> [isArray |-> TRUE, list |-> <<>>],
   minMultiplier |-> Undefined, maxMultiplier |-> Undefined,
   intervalSeconds |-> Undefined, rounding |-> "", onlyCashTrades |-> Undefined,
   ccRounding |-> "", stickToBaseline |-> Undefined, minAbsolute |-> Undefined,
   maxAbsolute |-> Undefined, seed |-> Undefined]

\* explicit trader list with a missing trader, all offers, no retention,
\* multiplier exactly 1
RawExplicit ==
  [RawDefaults EXCEPT !.autoDiscoverTraderIds = Bool(FALSE),
     !.traderIds = [isArray |-> TRUE, list |-> <<"b", "x", "a", "", "a">>],
     !.onlyCashTrades = Bool(FALSE), !.stickToBaseline = Bool(FALSE),
     !.minMultiplier = Num(100), !.maxMultiplier = Num(100),
     !.intervalSeconds = Num(60 * Scale), !.seed = Num(42 * Scale)]

RawDisabled ==
  [RawDefaults EXCEPT !.enabled = Bool(FALSE), !.intervalSeconds = Str(60 * Scale)]

\* no repetition asked for
RawIntervalZero ==
  [RawDefaults EXCEPT !.intervalSeconds = Num(0), !.autoDiscoverTraderIds = Bool(FALSE),
     !.traderIds = [isArray |-> TRUE, list |-> <<"a">>]]

\* multipliers from -0.5 to 0.3, given in the wrong order: prices of 0 and below
RawLowMultipliers ==
  [RawDefaults EXCEPT !.minMultiplier = Num(30), !.maxMultiplier = Num(-50),
     !.rounding = "floor", !.ccRounding = "ceil", !.stickToBaseline = Bool(FALSE),
     !.intervalSeconds = Num(90 * Scale + 50)]

UserConfigs == {RawDefaults, RawExplicit, RawDisabled, RawIntervalZero, RawLowMultipliers}

\* auto-discovery left on, with an explicit list to fall back on
RawFallback ==
  [RawDefaults EXCEPT !.traderIds = [isArray |-> TRUE, list |-> <<"p">>],
     !.intervalSeconds = Num(60 * Scale)]

PricesAsMap ==
  MapTable([id \in {"t1", "t2", DollarTpl} |->
     IF id = "t1" THEN Row(NoId, NoId, Num(1000), Undefined)
     ELSE IF id = "t2" THEN Row(NoId, NoId, Undefined, Str(40))
     ELSE Row(NoId, NoId, Num(150), Undefined)])

HandbookAsList == ListTable(<<Row("t3", NoId, Num(20), Undefined)>>)

\* an array with a null element after the record of t1
PricesAsListWithNull ==
  ListTable(<<Row("t1", NoId, Num(1000), Undefined), NullRow,
              Row(NoId, DollarTpl, Undefined, Num(150))>>)

TradersMain ==
  [order |-> <<"b", "p", "a">>,
   at |-> [t \in {"a", "b", "p"} |->
     IF t = "b" THEN
       Trader(Nickname(<<"B", "l", "u", "e", "H", "e", "a", "d">>), "list",
              <<Item("i4", "t1"), Item("i5", "t2")>>,
              [i \in {"i4", "i5"} |->
                 IF i = "i4" THEN Scheme(<< <<PrimOffer>> >>)
                 ELSE Scheme(<< <<Offer(EuroTpl, 3)>> >>)])
     ELSE IF t = "p" THEN
       Trader(Nickname(<<"P", "r", "a", "p", "o", "r">>), "list",
              <<Item("i3", "t1")>>,
              [i \in {"i3"} |-> FlatScheme(<<Offer(RubleTpl, 5)>>)])
     ELSE
       Trader(Nickname(<<"A", "I", "O">>), "list",
              <<Item("i1", "t1"), Item("i2", "t2"), Item(NoId, "t1")>>,
              [i \in {"i1", "i2"} |->
                 IF i = "i1" THEN Scheme(<< <<Offer("t2", 2), Offer(DollarTpl, 7)>>,
                                            <<Offer(RubleTpl, 9)>> >>)
                 ELSE Scheme(<< <<Offer(RubleTpl, 50)>> >>)])]]

TradersSmall ==
  [order |-> <<"a", "b">>,
   at |-> [t \in {"a", "b"} |->
     IF t = "a" THEN
       Trader(Nickname(<<"a", "i", "o">>), "list", <<Item("i1", "t1")>>,
              [i \in {"i1"} |-> Scheme(<< <<Offer(DollarTpl, 7)>> >>)])
     ELSE
       Trader(NoNickname, "list", <<Item("i2", "t1")>>,
              [i \in {"i2"} |-> Scheme(<< <<Offer(RubleTpl, 3)>> >>)])]]

\* one trader, whose nickname matches no known pattern
TradersPlain ==
  [order |-> <<"p">>,
   at |-> [t \in {"p"} |->
     Trader(Nickname(<<"P", "r", "a", "p", "o", "r">>), "list", <<Item("i3", "t1")>>,
            [i \in {"i3"} |-> FlatScheme(<<Offer(RubleTpl, 5)>>)])]]

NoTraders == [order |-> <<>>, at |-> EmptyMap]

Store(avail, traders, prices, handbook) ==
  [avail |-> avail, traders |-> traders, prices |-> prices, handbook |-> handbook]

Stores ==
  {Store(TRUE, TradersMain, PricesAsMap, HandbookAsList),
   Store(TRUE, TradersSmall, PricesAsListWithNull, NoTable),
   \* getTables() gave nothing: the store is unavailable
   Store(FALSE, NoTraders, NoTable, NoTable)}

\* the configurations and stores a behaviour starts from
Installations ==
  (UserConfigs \X Stores)
    \cup {<<RawFallback, Store(TRUE, TradersPlain, PricesAsMap, HandbookAsList)>>}

Init ==
  /\ build \in {"A", "B"}
  /\ \E inst \in Installations : userConfig = inst[1] /\ db = inst[2]
  /\ config = NoConfig
  /\ rng = NoRng
  /\ intervalTimer = 0
  /\ timers = {}
  /\ priceCache = EmptyMap
  /\ currencyCache = EmptyMap
  /\ baselinePrices = EmptyMap
  /\ last = NoReport("none")
  /\ cycles = 0
  /\ starts = 0
  /\ edits = 0

Next ==
  \/ PostDBLoad
  \/ TimerFires
  \/ HostSetsQuantity
  \/ HostChangesPrice
  \/ HostAddsItem
  \/ HostAddsTrader
  \/ HostBreaksAssort

Spec == Init /\ [][Next]_vars

(* ------------------------------------------------------------------ *)
(* The price computation and the offer update on their own: after the  *)
(* configuration is loaded and the generator seeded, _randomizePrice    *)
(* and _updateOffer are called on baselines, prices and offer lists of  *)
(* every shape.  The variable cycles counts the calls; last reports the *)
(* last call.                                                          *)
(* ------------------------------------------------------------------ *)
\* calls in one behaviour
MaxCalls == 2

\* user configurations: the defaults, multiplier exactly 1 with all offers,
\* multipliers below 0, both absolute bounds 500, absolute bounds 300 and
\* 100 given in the wrong order, a lower bound only, an upper bound only
PricingConfigs ==
  {RawDefaults, RawExplicit, RawLowMultipliers,
   [RawDefaults EXCEPT !.minAbsolute = Num(500 * Scale), !.maxAbsolute = Num(500 * Scale)],
   [RawDefaults EXCEPT !.minAbsolute = Num(300 * Scale), !.maxAbsolute = Num(100 * Scale),
                       !.rounding = "ceil"],
   [RawLowMultipliers EXCEPT !.minAbsolute = Num(20 * Scale)],
   [RawDefaults EXCEPT !.maxAbsolute = Str(900 * Scale), !.rounding = "floor"]}

\* offer lists: one ruble offer; a barter ingredient before a dollar offer;
\* a dollar offer before a ruble offer; barter ingredients only; one euro
\* offer; a null element before a ruble offer
OfferLists ==
  {<<Offer(RubleTpl, 5)>>,
   <<Offer("t2", 2), Offer(DollarTpl, 7)>>,
   <<Offer(DollarTpl, 7), Offer(RubleTpl, 9)>>,
   <<Offer("t2", 2), Offer("t1", 1)>>,
   <<Offer(EuroTpl, 3)>>,
   <<NullOffer, Offer(RubleTpl, 1)>>}

PricingInit ==
  /\ build \in {"A", "B"}
  /\ userConfig \in PricingConfigs
  /\ db = Store(TRUE, NoTraders, PricesAsMap, HandbookAsList)
  /\ config = loadAndValidateConfig(build, userConfig)
  /\ rng = seededRandom(loadAndValidateConfig(build, userConfig).seed)
  /\ intervalTimer = 0
  /\ timers = {}
  /\ priceCache = EmptyMap
  /\ currencyCache = EmptyMap
  /\ baselinePrices = EmptyMap
  /\ last = [op |-> "none"]
  /\ cycles = 0
  /\ starts = 1
  /\ edits = 0

\* one call of _randomizePrice(baseline): fraction is the generator's
\* output over RngDen, multiplier the multiplier and raw the product
\* baseline * multiplier, both over Scale * RngDen
RandomizeOne ==
  /\ cycles < MaxCalls
  /\ \E baseline \in {Num(1), Num(7), Num(1000)} :
       last' = [op |-> "randomize", baseline |-> baseline,
                fraction |-> rngFraction(rng),
                multiplier |-> multiplierNum(config, rng),
                raw |-> ValueOf(baseline) * multiplierNum(config, rng),
                price |-> _randomizePrice(config, rng, baseline)]
  /\ rng' = rngAdvance(rng)
  /\ cycles' = cycles + 1
  /\ UNCHANGED <<build, userConfig, db, config, intervalTimer, timers, priceCache,
                 currencyCache, baselinePrices, starts, edits>>

\* one call of _updateOffer(offers, rubles, db)
UpdateOne ==
  /\ cycles < MaxCalls
  /\ \E offers \in OfferLists, rubles \in {0, 40, 1000} :
       \E u \in {_updateOffer(build, Engine, db, config, offers, rubles)} :
          /\ priceCache' = u.e.priceCache
          /\ currencyCache' = u.e.currencyCache
          /\ last' = [op |-> "update", offers |-> offers, rubles |-> rubles,
                      target |-> TargetIndex(config, offers),
                      after |-> u.offers, wrote |-> u.wrote, raised |-> u.raised,
                      writes |-> u.e.writes]
  /\ cycles' = cycles + 1
  /\ UNCHANGED <<build, userConfig, db, config, rng, intervalTimer, timers,
                 baselinePrices, starts, edits>>

SpecPricing == PricingInit /\ [][RandomizeOne \/ UpdateOne]_vars

(* ------------------------------------------------------------------ *)
(* The reference price lookup and the currency conversion on their     *)
(* own, on reference tables of every shape, well-formed or not; the    *)
(* host may change a price between two calls.                          *)
(* ------------------------------------------------------------------ *)
\* stores without traders: the two sets of tables of Stores; an object
\* table with a negative number as a string, "0", 0 beside a negative
\* number, and a string that is no number, over an object handbook; an
\* array table with prices given as strings; an array handbook that
\* begins with a null element; and, as objects and as arrays, tables where
\* t1 has a price in both, t2 a negative price before a handbook price, t3
\* a handbook price only, given as a string, and the dollar a price given
\* as a string
ReferenceStores ==
  {Store(TRUE, NoTraders, PricesAsMap, HandbookAsList),
   Store(TRUE, NoTraders, PricesAsListWithNull, NoTable),
   Store(TRUE, NoTraders,
         MapTable([id \in {"t1", "t2", "t3", DollarTpl, EuroTpl} |->
            IF id = "t1" THEN Row(NoId, NoId, Str(-5), Undefined)
            ELSE IF id = "t2" THEN Row(NoId, NoId, Str(0), Undefined)
            ELSE IF id = "t3" THEN Row(NoId, NoId, Num(0), Num(-3))
            ELSE IF id = DollarTpl THEN Row(NoId, NoId, Str(-150), Undefined)
            ELSE Row(NoId, NoId, NaNStr, Undefined)]),
         MapTable([id \in {"t2", "t3"} |->
            IF id = "t2" THEN Row(NoId, NoId, Undefined, Str(-7))
            ELSE Row(NoId, NoId, Num(-20), Undefined)])),
   Store(TRUE, NoTraders,
         ListTable(<<Row("t1", NoId, Str(40), Undefined), Row(NoId, "t2", Undefined, Str(-5)),
                     Row(DollarTpl, NoId, Num(0), Undefined), Row("t3", NoId, NaNStr, Undefined)>>),
         ListTable(<<Row("t2", NoId, Str(30), Undefined), Row(DollarTpl, NoId, Num(-1), Num(150))>>)),
   Store(TRUE, NoTraders, PricesAsMap,
         ListTable(<<NullRow, Row("t3", NoId, Num(20), Undefined)>>)),
   Store(TRUE, NoTraders,
         MapTable([id \in {"t1", "t2", DollarTpl} |->
            IF id = "t1" THEN Row(NoId, NoId, Num(1000), Undefined)
            ELSE IF id = "t2" THEN Row(NoId, NoId, Num(-3), Undefined)
            ELSE Row(NoId, NoId, Undefined, Str(150))]),
         MapTable([id \in {"t1", "t2", "t3"} |->
            IF id = "t1" THEN Row(NoId, NoId, Num(5), Undefined)
            ELSE IF id = "t2" THEN Row(NoId, NoId, Num(20), Undefined)
            ELSE Row(NoId, NoId, Undefined, Str(30))])),
   Store(TRUE, NoTraders,
         ListTable(<<Row("t1", NoId, Num(1000), Undefined), Row(NoId, "t2", Num(-3), Undefined),
                     Row(DollarTpl, NoId, Undefined, Str(150))>>),
         ListTable(<<Row("t1", NoId, Num(5), Undefined), Row("t2", NoId, Num(20), Undefined),
                     Row(NoId, "t3", Undefined, Str(30))>>))}

ResolverInit ==
  /\ build \in {"A", "B"}
  /\ userConfig = RawDefaults
  /\ db \in ReferenceStores
  /\ config = loadAndValidateConfig(build, userConfig)
  /\ rng = seededRandom(loadAndValidateConfig(build, userConfig).seed)
  /\ intervalTimer = 0
  /\ timers = {}
  /\ priceCache = EmptyMap
  /\ currencyCache = EmptyMap
  /\ baselinePrices = EmptyMap
  /\ last = [op |-> "none"]
  /\ cycles = 0
  /\ starts = 1
  /\ edits = 0

\* one call of _lookupPrice(db, templateId): read says whether the tables
\* were read, handbook whether the handbook table was
LookupOne ==
  /\ cycles < MaxCalls
  /\ \E templateId \in {"t1", "t2", "t3", DollarTpl, EuroTpl} :
       \E look \in {LookupPrice(build, Engine, db, templateId)} :
          /\ priceCache' = look.e.priceCache
          /\ last' = [op |-> "lookup", id |-> templateId, val |-> look.val,
                      raised |-> look.raised, read |-> templateId \in look.e.scanned,
                      handbook |-> templateId \in look.e.handbookReads]
  /\ cycles' = cycles + 1
  /\ UNCHANGED <<build, userConfig, db, config, rng, intervalTimer, timers,
                 currencyCache, baselinePrices, starts, edits>>

\* one call of _convertCurrency(db, rubles, currencyTpl)
ConvertOne ==
  /\ cycles < MaxCalls
  /\ \E currencyTpl \in {DollarTpl, EuroTpl}, rubles \in {40, 1000} :
       \E c \in {ConvertCurrency(build, Engine, db, config, rubles, currencyTpl)} :
          /\ priceCache' = c.e.priceCache
          /\ currencyCache' = c.e.currencyCache
          /\ last' = [op |-> "convert", id |-> currencyTpl, rubles |-> rubles,
                      val |-> c.val, raised |-> c.raised,
                      read |-> currencyTpl \in c.e.scanned]
  /\ cycles' = cycles + 1
  /\ UNCHANGED <<build, userConfig, db, config, rng, intervalTimer, timers,
                 baselinePrices, starts, edits>>

SpecResolver == ResolverInit /\ [][LookupOne \/ ConvertOne \/ HostChangesPrice]_vars

(* ------------------------------------------------------------------ *)
(* The baseline build on its own: _buildBaselines is called for lists  *)
(* of target traders, some of them missing from the store or without   *)
(* an assortment, over every set of reference tables; between two      *)
(* calls the host may add an item to a trader or remove one.           *)
(* ------------------------------------------------------------------ *)
\* trader a carries t1, t2 and an item without template; trader n has no
\* assort.items; trader c carries t3, t1 and a template no table prices
TradersForBaseline ==
  [order |-> <<"a", "n", "c">>,
   at |-> [t \in {"a", "n", "c"} |->
     IF t = "a" THEN
       Trader(Nickname(<<"a", "i", "o">>), "list",
              <<Item("i1", "t1"), Item("i2", "t2"), Item("i6", NoId)>>,
              [i \in {"i1", "i2"} |-> Scheme(<< <<Offer(RubleTpl, 1)>> >>)])
     ELSE IF t = "n" THEN Trader(NoNickname, "none", <<>>, EmptyMap)
     ELSE
       Trader(NoNickname, "list",
              <<Item("i3", "t3"), Item("i4", "t1"), Item("i5", "t9")>>,
              [i \in {"i3"} |-> Scheme(<< <<Offer(RubleTpl, 1)>> >>)])]]

\* the lists of target traders a build is called with; x is no trader of
\* the store
TargetLists == {<<>>, <<"a">>, <<"x", "n", "c">>, <<"c", "n", "a", "x">>}

BaselineInit ==
  /\ build \in {"A", "B"}
  /\ userConfig \in {RawDefaults, RawExplicit}
  /\ db \in {[s EXCEPT !.traders = TradersForBaseline] : s \in ReferenceStores}
  /\ config = loadAndValidateConfig(build, userConfig)
  /\ rng = seededRandom(loadAndValidateConfig(build, userConfig).seed)
  /\ intervalTimer = 0
  /\ timers = {}
  /\ priceCache = EmptyMap
  /\ currencyCache = EmptyMap
  /\ baselinePrices = EmptyMap
  /\ last = [op |-> "none"]
  /\ cycles = 0
  /\ starts = 1
  /\ edits = 0

\* one call of _buildBaselines(db, traderIds): before is the baseline map
\* the call found, warned the traders it logged a warning about
BuildOne ==
  /\ cycles < MaxCalls
  /\ \E traderIds \in TargetLists :
       \E built \in {BuildBaselines(build, Engine, db, config, traderIds)} :
          /\ priceCache' = built.e.priceCache
          /\ baselinePrices' = built.e.baselinePrices
          /\ last' = [op |-> "build", targets |-> traderIds, before |-> baselinePrices,
                      raised |-> built.raised, warned |-> built.e.warned]
  /\ cycles' = cycles + 1
  /\ UNCHANGED <<build, userConfig, db, config, rng, intervalTimer, timers,
                 currencyCache, starts, edits>>

\* a trader loses one item of its assortment
HostRemovesItem ==
  /\ edits < MaxHostEdits
  /\ \E t \in DOMAIN db.traders.at :
       \E i \in 1..Len(db.traders.at[t].items.list) :
          db' = [db EXCEPT !.traders.at[t].items.list =
                   SubSeq(@, 1, i - 1) \o SubSeq(@, i + 1, Len(@))]
  /\ Edited

SpecBaseline == BaselineInit /\ [][BuildOne \/ HostRemovesItem \/ HostAddsItem]_vars

(* ------------------------------------------------------------------ *)
(* The generator on its own: seededRandom(seed) is called twice with   *)
(* the same seed and the two closures are called in any order.  The    *)
(* state of the first closure is rng, that of the second last.second;  *)
(* last.first and last.outputs list the values each has returned.      *)
(* ------------------------------------------------------------------ *)
\* calls of one closure in one behaviour
MaxDraws == 3

\* seeds: 0, small numbers, 2^31 - 1, and -1, which `>>> 0` reads as 2^32 - 1
Seeds == {0, 1, 42, 65536, 123456789, 2147483647, -1}

GeneratorInit ==
  /\ build \in {"A", "B"}
  /\ userConfig = RawDefaults
  /\ db = Store(FALSE, NoTraders, NoTable, NoTable)
  /\ config = NoConfig
  /\ \E seed \in Seeds :
       /\ rng = seededRandom(seed)
       /\ last = [op |-> "none", seed |-> seed, second |-> seededRandom(seed),
                  first |-> <<>>, outputs |-> <<>>]
  /\ intervalTimer = 0
  /\ timers = {}
  /\ priceCache = EmptyMap
  /\ currencyCache = EmptyMap
  /\ baselinePrices = EmptyMap
  /\ cycles = 0
  /\ starts = 0
  /\ edits = 0

\* one call of the first closure: its own `state` advances, the value is
\* returned
CallFirst ==
  /\ Len(last.first) < MaxDraws
  /\ rng' = rngAdvance(rng)
  /\ last' = [last EXCEPT !.op = "first", !.first = Append(@, rngOutput(rng))]
  /\ UNCHANGED <<build, userConfig, db, config, intervalTimer, timers, priceCache,
                 currencyCache, baselinePrices, cycles, starts, edits>>

\* one call of the second closure
CallSecond ==
  /\ Len(last.outputs) < MaxDraws
  /\ last' = [last EXCEPT !.op = "second", !.second = rngAdvance(@),
                          !.outputs = Append(@, rngOutput(last.second))]
  /\ UNCHANGED <<build, userConfig, db, config, rng, intervalTimer, timers, priceCache,
                 currencyCache, baselinePrices, cycles, starts, edits>>

SpecGenerator == GeneratorInit /\ [][CallFirst \/ CallSecond]_vars

(* ------------------------------------------------------------------ *)
(* The event loop.  A task is a call of postDBLoad by the host or a    *)
(* firing of the interval timer; last.tasks lists the tasks that have  *)
(* begun and not ended, each with the number of traders its cycle has  *)
(* processed.  The runtime begins a task only when no other task is on  *)
(* the call stack, that is when every task begun has ended or has      *)
(* yielded (at an await).  What a cycle computes is left out here: it  *)
(* ends with or without an exception.                                  *)
(* ------------------------------------------------------------------ *)
\* traders a cycle goes through
TradersPerCycle == 2

Task(kind, id) == [kind |-> kind, id |-> id, done |-> 0]

\* a faulty variant of Yields: the cycle awaits between two traders
YieldsBetweenTraders(task) == task.done > 0

\* whether a task that has begun gives the call stack back before it
\* ends: postDBLoad, _schedule, the timer's callback and _runCycle are
\* plain functions without await, so never
Yields(task) == FALSE

\* the runtime may begin a task
StackFree == \A k \in 1..Len(last.tasks) : Yields(last.tasks[k])

LoopInit ==
  /\ build \in {"A", "B"}
  /\ userConfig \in {RawDefaults, RawExplicit, RawIntervalZero}
  /\ db = Store(FALSE, NoTraders, NoTable, NoTable)
  /\ config = NoConfig
  /\ rng = NoRng
  /\ intervalTimer = 0
  /\ timers = {}
  /\ priceCache = EmptyMap
  /\ currencyCache = EmptyMap
  /\ baselinePrices = EmptyMap
  /\ last = [op |-> "none", tasks |-> <<>>]
  /\ cycles = 0
  /\ starts = 0
  /\ edits = 0

\* the host calls postDBLoad: the configuration is loaded, _schedule clears
\* the timer (lines 319-322 / 741-744) and the immediate cycle begins
PostDBLoadBegins ==
  /\ starts < MaxStarts
  /\ cycles < MaxCycles
  /\ StackFree
  /\ config' = loadAndValidateConfig(build, userConfig)
  /\ timers' = IF intervalTimer # 0 THEN timers \ {intervalTimer} ELSE timers
  /\ intervalTimer' = 0
  /\ last' = [op |-> "postDBLoad", tasks |-> Append(last.tasks, Task("postDBLoad", starts + 1))]
  /\ starts' = starts + 1
  /\ cycles' = cycles + 1
  /\ UNCHANGED <<build, userConfig, db, rng, priceCache, currencyCache, baselinePrices, edits>>

\* a pending timer fires: its callback begins a cycle
TimerBegins ==
  /\ cycles < MaxCycles
  /\ StackFree
  /\ \E id \in timers :
       last' = [op |-> "timer", tasks |-> Append(last.tasks, Task("timer", id))]
  /\ cycles' = cycles + 1
  /\ UNCHANGED <<build, userConfig, db, config, rng, intervalTimer, timers, priceCache,
                 currencyCache, baselinePrices, starts, edits>>

\* a cycle in progress processes its next trader
TraderStep ==
  /\ \E k \in 1..Len(last.tasks) :
       /\ last.tasks[k].done < TradersPerCycle
       /\ last' = [op |-> "trader", tasks |-> [last.tasks EXCEPT ![k].done = @ + 1]]
  /\ UNCHANGED <<build, userConfig, db, config, rng, intervalTimer, timers, priceCache,
                 currencyCache, baselinePrices, cycles, starts, edits>>

\* the sequence s without its k-th element
Without(s, k) == SubSeq(s, 1, k - 1) \o SubSeq(s, k + 1, Len(s))

\* a cycle ends, with an exception or without, and its task with it:
\* postDBLoad goes on to setInterval when the cycle did not raise and
\* intervalSeconds is above 0 (lines 328-336 / 749-753)
TaskEnds ==
  /\ \E k \in 1..Len(last.tasks), raised \in BOOLEAN :
       /\ last.tasks[k].done = TradersPerCycle
       /\ last' = [op |-> "end", tasks |-> Without(last.tasks, k)]
       /\ IF last.tasks[k].kind = "postDBLoad" /\ ~raised /\ config.intervalSeconds > 0
          THEN /\ timers' = timers \cup {last.tasks[k].id}
               /\ intervalTimer' = last.tasks[k].id
          ELSE UNCHANGED <<timers, intervalTimer>>
  /\ UNCHANGED <<build, userConfig, db, config, rng, priceCache, currencyCache,
                 baselinePrices, cycles, starts, edits>>

SpecLoop == LoopInit /\ [][PostDBLoadBegins \/ TimerBegins \/ TraderStep \/ TaskEnds]_vars

(* ------------------------------------------------------------------ *)
(* Properties                                                          *)
(* ------------------------------------------------------------------ *)
Range(s) == {s[i] : i \in 1..Len(s)}

\* the operation that led to the current state ran a cycle
CycleRan == last.ran

\* C1: every quantity the offer update writes is at least 1, whatever the
\* price in rubles (0 and below included) and whatever the conversion gave
\* (an amount, an amount of 0, or nothing).
C1_WrittenQuantityAtLeastOne ==
  \A i \in 1..Len(last.writes) : last.writes[i].count >= 1

\* C1 witness: one cycle wrote a quantity for a price of 0 or below, one
\* for a conversion that gave nothing and one for a conversion that gave 0
C1_Witness ==
  /\ CycleRan
  /\ \E w \in Range(last.writes) : w.rubles <= 0 /\ w.count = 1
  /\ \E w \in Range(last.writes) : w.converted = Null
  /\ \E w \in Range(last.writes) : w.converted = Num(0)

\* C2: with stickToBaseline on, a non-empty baseline map is never changed
\* by any step: not by a later cycle, and not after the host changed offer
\* quantities, items or traders.
C2_RetainedBaselineNeverChanges ==
  [][(config.loaded /\ config.stickToBaseline /\ DOMAIN baselinePrices # {})
       => baselinePrices' = baselinePrices]_vars

\* C2 witness: a later cycle called the builder on a store that had gained
\* a trader with a priced template, and the retained baseline lacks it
C2_Witness ==
  /\ CycleRan /\ cycles >= 2 /\ last.stage = "done"
  /\ config.stickToBaseline
  /\ DOMAIN baselinePrices # {}
  /\ "z" \in Range(last.active)
  /\ "t3" \notin DOMAIN baselinePrices

\* C3: a memoized identifier keeps its entry for ever, and every later
\* lookup of it returns the memoized value without reading the tables,
\* whatever the tables hold by then; within one operation no identifier is
\* given two results.
C3_MemoizedLookupIsStable ==
  [][/\ \A id \in DOMAIN priceCache :
          /\ id \in DOMAIN priceCache'
          /\ priceCache'[id] = priceCache[id]
          /\ id \notin last'.scanned
          /\ \A p \in last'.results : p[1] = id => p[2] = priceCache[id]
     /\ \A p, q \in last'.results : p[1] = q[1] => p[2] = q[2]]_vars

\* C3 witness: a cycle looked t1 up after the prices table had given it
\* another price, got the memoized 1000 and did not read the tables
C3_Witness ==
  /\ CycleRan
  /\ db.avail
  /\ db.prices # WithPrice(db.prices, "t1", Num(1000))
  /\ <<"t1", Num(1000)>> \in last.results
  /\ "t1" \notin last.scanned

\* the identifiers of the sequence ids that are, or are not, traders of
\* the store
PresentIn(ids) == SelectSeq(ids, LAMBDA t : t \in DOMAIN db.traders.at)
MissingIn(ids) == SelectSeq(ids, LAMBDA t : t \notin DOMAIN db.traders.at)

\* C4: when processing a trader raises, the cycle does not raise and goes
\* on: every trader of the active list that is in the store is processed,
\* in order, and each of them either failed or reported its updates.
C4_TraderFailureIsIsolated ==
  (CycleRan /\ last.failed # <<>>) =>
    /\ ~last.raised
    /\ last.stage = "done"
    /\ last.attempted = PresentIn(last.active)
    /\ Len(last.attempted) = Len(last.failed) + Len(last.updated)

\* C4 witness: the first trader processed failed and the last one, after
\* it, updated offers
C4_Witness ==
  /\ CycleRan
  /\ Len(last.attempted) >= 2
  /\ last.attempted[1] \in Range(last.failed)
  /\ last.attempted[Len(last.attempted)] \notin Range(last.failed)
  /\ last.updated # <<>>
  /\ last.updated[Len(last.updated)] > 0

\* C5: a cycle that reaches the loop over the active traders of an
\* available store warns about each identifier that is no trader of the
\* store, does not raise, and processes all the others.
C5_MissingTraderIsWarnedAndSkipped ==
  (CycleRan /\ db.avail /\ last.stage \in {"loop", "done"}) =>
    /\ ~last.raised
    /\ last.warned = MissingIn(last.active)
    /\ last.attempted = PresentIn(last.active)

\* C5 witness: the active list names a missing trader between two present
\* ones, and the trader after it updated offers
C5_Witness ==
  /\ CycleRan
  /\ last.active = <<"b", "x", "a">>
  /\ last.warned = <<"x">>
  /\ last.attempted = <<"b", "a">>
  /\ last.updated # <<>>
  /\ last.updated[Len(last.updated)] > 0

\* C6: a cycle run by the timer never lets its exception out of the
\* callback, and leaves the timer pending, so that it fires again.
C6_TimerSurvivesFailingCycle ==
  [][(last'.op = "timer" /\ last'.raised) =>
       /\ ~last'.escaped
       /\ timers' = timers
       /\ intervalTimer' = intervalTimer
       /\ intervalTimer' \in timers']_vars

\* C6 witness: the timer ran a cycle that raised, and is still pending
C6_Witness ==
  /\ last.op = "timer"
  /\ last.raised
  /\ cycles >= 3
  /\ timers # {}

\* C7: at most one timer is pending, and it is the one this.intervalTimer
\* holds.
C7_AtMostOneTimer ==
  /\ Cardinality(timers) <= 1
  /\ timers \subseteq {intervalTimer}

\* C7 witness: a second postDBLoad replaced the timer of the first
C7_Witness ==
  /\ starts = 2
  /\ timers = {2}
  /\ intervalTimer = 2

\* C8 (as the specification states it): after postDBLoad with a validated
\* intervalSeconds above 0 a timer is pending, also when the immediate cycle
\* raised, and the exception did not reach the host.
C8_RepetitionPendingAfterStart ==
  (last.op = "postDBLoad" /\ config.intervalSeconds > 0) =>
    /\ timers # {}
    /\ ~last.escaped

\* C8 failing state: postDBLoad ran with intervalSeconds above 0, its
\* immediate cycle raised, the exception stayed inside postDBLoad, and no
\* timer is pending.
C8_Witness ==
  /\ last.op = "postDBLoad"
  /\ last.raised
  /\ ~last.escaped
  /\ config.intervalSeconds > 0
  /\ timers = {}

\* C9 (as the specification states it): when the user configuration sets
\* intervalSeconds to 0, the validated configuration carries 0 and no timer
\* is pending after postDBLoad.
C9_IntervalZeroDisablesRepetition ==
  (last.op = "postDBLoad" /\ userConfig.intervalSeconds = Num(0)) =>
    /\ config.intervalSeconds = 0
    /\ timers = {}

\* C9 failing state: build A's loader turned the user's intervalSeconds 0
\* into the default, and postDBLoad left a timer pending.
C9_Witness ==
  /\ last.op = "postDBLoad"
  /\ build = "A"
  /\ userConfig.intervalSeconds = Num(0)
  /\ config.intervalSeconds = DEFAULT_CONFIG.intervalSeconds.n
  /\ timers # {}

\* C10: a cycle of a disabled configuration changes neither the store, nor
\* the price cache, the rate cache, the baseline map or the generator, and
\* runs no discovery.
C10_DisabledCycleHasNoEffect ==
  [][(last'.ran /\ config'.loaded /\ ~config'.enabled) =>
       /\ db' = db
       /\ priceCache' = priceCache
       /\ currencyCache' = currencyCache
       /\ baselinePrices' = baselinePrices
       /\ rng' = (IF last'.op = "postDBLoad" THEN seededRandom(config'.seed) ELSE rng)
       /\ last'.calls = 0
       /\ last'.discoveries = 0
       /\ last'.scanned = {}
       /\ last'.writes = <<>>]_vars

\* C10 witness: the timer ran a cycle of a disabled configuration on a
\* store whose traders a discovery would have found
C10_Witness ==
  /\ last.op = "timer"
  /\ last.ran
  /\ ~config.enabled
  /\ last.stage = "disabled"
  /\ db.avail
  /\ Discover(build, db).found # <<>>

\* C11: a cycle that resolved its active traders works on the discovery's
\* result when auto-discovery is on and found something, and on the
\* configured traderIds otherwise; the traders of that list that are in the
\* store are processed in its order.
C11_ActiveSetIsDiscoveryOrExplicit ==
  (CycleRan /\ last.stage \in {"baseline", "loop", "done"}) =>
    /\ last.active =
         (IF config.autoDiscoverTraderIds /\ Discover(build, db).found # <<>>
          THEN Discover(build, db).found ELSE config.traderIds)
    /\ (last.stage = "done" => last.attempted = PresentIn(last.active))

\* C11 witness: auto-discovery is on and found nothing, and the cycle
\* updated the trader of the explicit list
C11_Witness ==
  /\ CycleRan
  /\ config.autoDiscoverTraderIds
  /\ db.avail
  /\ Discover(build, db).found = <<>>
  /\ last.active = <<"p">>
  /\ last.attempted = <<"p">>
  /\ last.updated = <<1>>

\* C12: the multiplier of every call of _randomizePrice lies between the
\* configuration's minMultiplier and maxMultiplier, for every output of
\* the generator.
C12_MultiplierWithinRange ==
  (last.op = "randomize") =>
    /\ 0 <= last.fraction /\ last.fraction < RngDen
    /\ config.minMultiplier * RngDen <= last.multiplier
    /\ last.multiplier <= config.maxMultiplier * RngDen

\* C12 witness: a call with minMultiplier below maxMultiplier and a
\* multiplier strictly between them, and the generator's output above 1/2
C12_Witness ==
  /\ last.op = "randomize"
  /\ 2 * last.fraction > RngDen
  /\ config.minMultiplier * RngDen < last.multiplier
  /\ last.multiplier < config.maxMultiplier * RngDen

\* C13: with both absolute bounds whole numbers above 0, the price lies
\* between them; a bound of 0 does not constrain its side: the price is
\* then the rounded product unless the other bound applies.
C13_AbsoluteClamps ==
  (last.op = "randomize") =>
    /\ (config.minAbsolute > 0 /\ config.minAbsolute % Scale = 0) =>
          last.price * Scale >= config.minAbsolute
    /\ (config.maxAbsolute > 0 /\ config.maxAbsolute % Scale = 0) =>
          last.price * Scale <= config.maxAbsolute
    /\ (config.minAbsolute = 0
          /\ (config.maxAbsolute = 0 \/ last.raw <= config.maxAbsolute * RngDen)) =>
          last.price = round(last.raw, Scale * RngDen, config.rounding)
    /\ (config.maxAbsolute = 0
          /\ (config.minAbsolute = 0 \/ last.raw >= config.minAbsolute * RngDen)) =>
          last.price = round(last.raw, Scale * RngDen, config.rounding)

\* C13 witness: minAbsolute = maxAbsolute = 500 and a baseline of 1000,
\* whose product is above 500: the price is exactly 500
C13_Witness ==
  /\ last.op = "randomize"
  /\ config.minAbsolute = 500 * Scale
  /\ config.maxAbsolute = 500 * Scale
  /\ last.baseline = Num(1000)
  /\ last.raw > 500 * Scale * RngDen
  /\ last.price = 500

\* the configuration has both multipliers exactly 1, rounding to nearest
\* and no absolute bound
MultiplierOne ==
  /\ config.loaded
  /\ config.minMultiplier = Scale /\ config.maxMultiplier = Scale
  /\ config.rounding = "nearest"
  /\ config.minAbsolute = 0 /\ config.maxAbsolute = 0

\* the <<trader, item index>> pairs of the traders the last cycle processed
\* to the end whose item has a baseline and a ruble offer as its target
RubleTargets ==
  {ti \in (Range(last.attempted) \ Range(last.failed)) \X (1..3) :
     LET trader == db.traders.at[ti[1]] IN
     /\ trader.items.kind = "list"
     /\ ti[2] <= Len(trader.items.list)
     /\ trader.items.list[ti[2]]._id \in DOMAIN trader.barter_scheme
     /\ trader.items.list[ti[2]]._tpl \in DOMAIN baselinePrices
     /\ TargetIndex(config, TargetOffers(trader.barter_scheme[trader.items.list[ti[2]]._id])) > 0
     /\ TargetOffers(trader.barter_scheme[trader.items.list[ti[2]]._id])
          [TargetIndex(config, TargetOffers(trader.barter_scheme[trader.items.list[ti[2]]._id]))]
          ._tpl = config.currencyTpls.ruble}

\* the quantity of the target offer of item ti
TargetCount(ti) ==
  LET trader == db.traders.at[ti[1]]
      offers == TargetOffers(trader.barter_scheme[trader.items.list[ti[2]]._id])
  IN offers[TargetIndex(config, offers)].count

\* C14: with both multipliers 1, rounding to nearest and no absolute
\* bound, after every finished cycle the ruble offer of each processed item
\* holds exactly the item's reference price, in the first cycle and in
\* every later one, whatever the offer held before.
C14_MultiplierOneWritesReferencePrice ==
  (CycleRan /\ last.stage = "done" /\ MultiplierOne) =>
    \A ti \in RubleTargets :
      /\ priceCache[db.traders.at[ti[1]].items.list[ti[2]]._tpl].n >= 1
      /\ TargetCount(ti) = priceCache[db.traders.at[ti[1]].items.list[ti[2]]._tpl].n

\* C14 witness: a timer-triggered cycle, after the host had overwritten an
\* offer quantity, left the reference price 1000 of t1 in a ruble offer
C14_Witness ==
  /\ last.op = "timer" /\ last.stage = "done" /\ MultiplierOne
  /\ cycles >= 2 /\ edits = 1
  /\ \E ti \in RubleTargets :
       /\ db.traders.at[ti[1]].items.list[ti[2]]._tpl = "t1"
       /\ TargetCount(ti) = 1000

\* the positions of the list offers that hold a configured currency
CurrencyPositions(offers) ==
  {i \in 1..Len(offers) : offers[i].kind = "obj" /\ offers[i]._tpl \in CurrencyValues(config)}

\* C15: with onlyCashTrades on, the update leaves every offer that is no
\* currency offer as it was, and when the list has no currency offer it
\* reports no update and changes nothing.
C15_CashOnlyLeavesBarterOffers ==
  (last.op = "update" /\ config.onlyCashTrades) =>
    /\ Len(last.after) = Len(last.offers)
    /\ \A i \in (1..Len(last.offers)) \ CurrencyPositions(last.offers) :
         last.after[i] = last.offers[i]
    /\ (CurrencyPositions(last.offers) = {}) =>
         (~last.wrote /\ ~last.raised /\ last.after = last.offers /\ last.writes = <<>>)

\* C15 witness: the dollar offer behind a barter ingredient was rewritten
\* and the ingredient kept its quantity
C15_Witness ==
  /\ last.op = "update" /\ config.onlyCashTrades
  /\ last.offers = <<Offer("t2", 2), Offer(DollarTpl, 7)>>
  /\ last.wrote
  /\ last.after[1] = Offer("t2", 2)
  /\ last.after[2].count # 7

\* C16 (as the specification states it): with onlyCashTrades on, when the
\* list holds a ruble offer and an offer in another configured currency,
\* the ruble offer is the one written, wherever it stands in the list.
C16_BaseCurrencyPreferred ==
  (last.op = "update" /\ config.onlyCashTrades
     /\ \E i, j \in CurrencyPositions(last.offers) :
          last.offers[i]._tpl = config.currencyTpls.ruble
          /\ last.offers[j]._tpl # config.currencyTpls.ruble) =>
    /\ last.wrote
    /\ \A i \in CurrencyPositions(last.offers) :
         IF last.offers[i]._tpl = config.currencyTpls.ruble
         THEN last.after[i].count = Max(1, last.rubles)
         ELSE last.after[i] = last.offers[i]

\* C16 failing state: the list is a dollar offer followed by a ruble offer;
\* the dollar offer was written and the ruble offer kept its quantity
C16_Witness ==
  /\ last.op = "update" /\ config.onlyCashTrades
  /\ last.offers = <<Offer(DollarTpl, 7), Offer(RubleTpl, 9)>>
  /\ last.rubles = 40
  /\ last.wrote
  /\ last.after[1].count # 7
  /\ last.after[2] = Offer(RubleTpl, 9)

\* C17 (as the specification states it): when the target offer is not in
\* rubles the update reports a write, and the quantity written is
\* max(1, converted) when the conversion gave an amount and
\* max(1, floor(rubles)) only when it gave none.
C17_ConvertedAmountWritten ==
  (last.op = "update" /\ last.target > 0
     /\ last.offers[last.target].kind = "obj"
     /\ last.offers[last.target]._tpl # config.currencyTpls.ruble) =>
    /\ last.wrote
    /\ Len(last.writes) = 1
    /\ last.after[last.target].count = last.writes[1].count
    /\ last.writes[1].count =
         (IF last.writes[1].converted.t = "num"
          THEN Max(1, last.writes[1].converted.n) ELSE Max(1, last.rubles))

\* C17 failing state: 40 rubles at a rate of 150 convert to the amount 0,
\* and the quantity written to the dollar offer is 40
C17_Witness ==
  /\ last.op = "update"
  /\ last.rubles = 40
  /\ last.wrote
  /\ Len(last.writes) = 1
  /\ last.offers[last.target]._tpl = DollarTpl
  /\ currencyCache[DollarTpl] = Num(150)
  /\ last.writes[1].converted = Num(0)
  /\ last.writes[1].count = 40

\* v is a number above 0
PositiveNumber(v) == v.t = "num" /\ v.n > 0

\* C18: a conversion that does not raise leaves the currency's rate in the
\* rate cache, the looked-up price or null; it returns nothing when that
\* rate is missing or not above 0; and no entry of the rate cache is ever
\* changed or removed, whatever the tables hold later.
C18_UnavailableRateStaysUnavailable ==
  [][/\ \A k \in DOMAIN currencyCache :
          k \in DOMAIN currencyCache' /\ currencyCache'[k] = currencyCache[k]
     /\ (last'.op = "convert" /\ ~last'.raised) =>
          /\ last'.id \in DOMAIN currencyCache'
          /\ last'.id \in DOMAIN priceCache'
          /\ currencyCache'[last'.id] = OrElse(priceCache'[last'.id], Null)
          /\ (~GtZero(currencyCache'[last'.id]) => last'.val = Null)
          /\ (GtZero(currencyCache'[last'.id]) => PositiveNumber(last'.val) \/ last'.val = Num(0))]_vars

\* C18 witness: the dollar had no usable rate at the first conversion; the
\* host then gave it the price 7, and a second conversion still returned
\* nothing without reading the tables
C18_Witness ==
  /\ last.op = "convert" /\ last.id = DollarTpl
  /\ ~last.raised /\ ~last.read
  /\ edits = 1
  /\ db.prices.shape = "map" /\ db.prices.rows[DollarTpl].Price = Num(7)
  /\ ~GtZero(currencyCache[DollarTpl])
  /\ last.val = Null

\* C19 (as the specification states it): a lookup returns a number above
\* 0 or nothing, and the cache holds nothing else.
C19_LookupPositiveOrAbsent ==
  /\ (last.op = "lookup") => (last.val = Null \/ PositiveNumber(last.val))
  /\ (last.op \in {"lookup", "convert"}) =>
       \A id \in DOMAIN priceCache : priceCache[id] = Null \/ PositiveNumber(priceCache[id])

\* C19 failing state: build B looked up an identifier whose Price is the
\* string "-5", and returned and memoized the number -5
C19_Witness ==
  /\ last.op = "lookup" /\ build = "B"
  /\ last.id = "t1"
  /\ db.prices.shape = "map" /\ db.prices.rows["t1"].Price = Str(-5)
  /\ last.val = Num(-5)
  /\ priceCache["t1"] = Num(-5)

\* the tables hold a null record on the way of the lookup of id: in the
\* array of prices, or in the array of the handbook when the prices give
\* nothing
NullRecordMet(id) ==
  \/ db.prices.shape = "list" /\ FindRow(db.prices.rows, id, 1) = -1
  \/ /\ db.prices.shape = "map" /\ id \notin DOMAIN db.prices.rows
     /\ db.handbook.shape = "list" /\ FindRow(db.handbook.rows, id, 1) = -1

\* C20 (as the specification states it): a lookup never raises; when it
\* meets a null record it returns nothing and memoizes nothing for the
\* identifier.
C20_LookupNeverRaises ==
  (last.op = "lookup") =>
    /\ ~last.raised
    /\ last.id \in DOMAIN priceCache
    /\ (last.read /\ NullRecordMet(last.id)) =>
         (last.val = Null /\ priceCache[last.id] = Null)

\* C20 failing state: build A read an array of prices with a null record
\* before any match; the lookup raised and memoized nothing
C20_Witness ==
  /\ last.op = "lookup" /\ build = "A"
  /\ last.read /\ NullRecordMet(last.id)
  /\ last.raised
  /\ last.id \notin DOMAIN priceCache

\* the price a table holds for id: the first truthy one of the record's
\* Price and price, Undefined when the table has no record for id
PriceIn(table, id) ==
  IF table.shape = "map" /\ id \in DOMAIN table.rows
  THEN OrElse(table.rows[id].Price, table.rows[id].price)
  ELSE IF table.shape = "list" /\ FindRow(table.rows, id, 1) > 0
  THEN OrElse(table.rows[FindRow(table.rows, id, 1)].Price,
              table.rows[FindRow(table.rows, id, 1)].price)
  ELSE Undefined

\* C21 (as the specification states it): a lookup that reads the tables
\* goes on to the handbook only when the prices table holds no price above
\* 0 for the identifier; a price above 0 in the prices table is the result
\* whatever the handbook holds; and when the prices table holds none and
\* the handbook holds a price above 0, the handbook's price is the result.
C21_HandbookOnlyOnMiss ==
  (last.op = "lookup" /\ last.read /\ ~last.raised) =>
    /\ last.handbook => ~GtZero(PriceIn(db.prices, last.id))
    /\ GtZero(PriceIn(db.prices, last.id)) =>
         last.val = NumberOf(PriceIn(db.prices, last.id))
    /\ (~GtZero(PriceIn(db.prices, last.id)) /\ GtZero(PriceIn(db.handbook, last.id))) =>
         last.val = NumberOf(PriceIn(db.handbook, last.id))

\* C21 failing state: the prices table holds the number -3 for t2 and the
\* handbook the number 20; build A did not go on to the handbook and
\* returned nothing
C21_Witness ==
  /\ last.op = "lookup" /\ build = "A"
  /\ last.read /\ ~last.raised
  /\ last.id = "t2"
  /\ PriceIn(db.prices, "t2") = Num(-3)
  /\ PriceIn(db.handbook, "t2") = Num(20)
  /\ ~last.handbook
  /\ last.val = Null

\* v is a string holding a number above 0
PositiveString(v) == v.t = "str" /\ v.n > 0

\* C22 (as the specification states it): a price above 0 given as a
\* numeric string resolves to that number, in an array and in an object,
\* in the prices table and, when the prices table holds no price for the
\* identifier, in the handbook.
C22_NumericStringAccepted ==
  (last.op = "lookup" /\ last.read /\ ~last.raised) =>
    /\ PositiveString(PriceIn(db.prices, last.id)) =>
         last.val = Num(PriceIn(db.prices, last.id).n)
    /\ (~Truthy(PriceIn(db.prices, last.id)) /\ PositiveString(PriceIn(db.handbook, last.id))) =>
         last.val = Num(PriceIn(db.handbook, last.id).n)

\* C22 failing state: the prices table is an array whose record of t1 has
\* the Price "40"; build B returned nothing
C22_Witness ==
  /\ last.op = "lookup" /\ build = "B"
  /\ last.read /\ ~last.raised
  /\ last.id = "t1"
  /\ db.prices.shape = "list"
  /\ PriceIn(db.prices, "t1") = Str(40)
  /\ last.val = Null

\* the targets of the last build that are traders of the store with an
\* assort.items, and those that are not
Resolvable(targets) ==
  {t \in Range(targets) : t \in DOMAIN db.traders.at /\ db.traders.at[t].items.kind = "list"}
Unresolvable(targets) == Range(targets) \ Resolvable(targets)

\* the templates the resolvable targets carry
Carried(targets) ==
  {item._tpl : item \in UNION {Range(db.traders.at[t].items.list) : t \in Resolvable(targets)}}
    \ {NoId}

\* C23: a build that rebuilds (retention off, or the map empty) and
\* returns leaves a map whose keys are exactly the templates carried by
\* the resolvable targets whose resolved price is above 0, each with that
\* price; a key of the map before that is no longer carried is gone.
C23_RebuiltBaselineIsExact ==
  (last.op = "build" /\ ~last.raised
     /\ (~config.stickToBaseline \/ last.before = EmptyMap)) =>
    /\ Carried(last.targets) \subseteq DOMAIN priceCache
    /\ DOMAIN baselinePrices =
         {tpl \in Carried(last.targets) : Truthy(priceCache[tpl]) /\ GtZero(priceCache[tpl])}
    /\ \A tpl \in DOMAIN baselinePrices : baselinePrices[tpl] = priceCache[tpl]

\* C23 witness: without retention, a second build after trader a lost its
\* item of template t2 kept t1 and dropped t2
C23_Witness ==
  /\ last.op = "build" /\ ~last.raised
  /\ ~config.stickToBaseline
  /\ edits = 1
  /\ last.targets = <<"a">>
  /\ DOMAIN last.before = {"t1", "t2"}
  /\ DOMAIN baselinePrices = {"t1"}
  /\ baselinePrices["t1"] = Num(1000)

\* C30 (as the specification states it): a build that rebuilds with a
\* target that is no trader of the store, or has no assortment, logs a
\* warning about it, does not raise, and holds the priced templates of
\* the other targets.
C30_UnresolvableVendorWarned ==
  (last.op = "build" /\ ~last.raised /\ Unresolvable(last.targets) # {}
     /\ (~config.stickToBaseline \/ last.before = EmptyMap)) =>
    /\ Unresolvable(last.targets) \subseteq Range(last.warned)
    /\ \A tpl \in Carried(last.targets) :
         (tpl \in DOMAIN priceCache /\ GtZero(priceCache[tpl])) => tpl \in DOMAIN baselinePrices

\* C30 failing state: the build was called for x (no trader), n (no
\* assortment) and c; it returned with the prices of c's templates and
\* logged no warning
C30_Witness ==
  /\ last.op = "build" /\ ~last.raised
  /\ last.before = EmptyMap
  /\ last.targets = <<"x", "n", "c">>
  /\ Unresolvable(last.targets) = {"x", "n"}
  /\ "t3" \in DOMAIN baselinePrices
  /\ "t1" \in DOMAIN baselinePrices
  /\ last.warned = <<>>

\* the state of a closure n calls after seededRandom(seed)
RECURSIVE StateAfter(_, _)
StateAfter(seed, n) == IF n = 0 THEN seededRandom(seed) ELSE rngAdvance(StateAfter(seed, n - 1))

\* v is a 32-bit unsigned value: v / 2^32 lies in [0, 1)
Unsigned32(v) == v.hi \in 0..(W16 - 1) /\ v.lo \in 0..(W16 - 1)

BlankOffers(offers) == [k \in DOMAIN offers |-> [offers[k] EXCEPT !.count = 0]]
BlankScheme(scheme) ==
  [scheme EXCEPT !.opts = [o \in DOMAIN scheme.opts |-> BlankOffers(scheme.opts[o])]]
BlankTraders(traders) ==
  [order |-> traders.order,
   at |-> [t \in DOMAIN traders.at |->
             [traders.at[t] EXCEPT !.barter_scheme =
                [i \in DOMAIN traders.at[t].barter_scheme |->
                   BlankScheme(traders.at[t].barter_scheme[i])]]]]

\* C26: a step that runs a cycle leaves the store's traders, their items,
\* every offer list's length and order and every offer's _tpl as they
\* were, and the reference tables too: it changes offer counts only.
C26_CycleChangesCountsOnly ==
  [][last'.ran =>
       /\ db'.avail = db.avail
       /\ db'.prices = db.prices
       /\ db'.handbook = db.handbook
       /\ BlankTraders(db'.traders) = BlankTraders(db.traders)]_vars

\* C26 witness: after three cycles and no host edit the traders differ
\* from the initial ones, in offer counts only, and the last cycle wrote a
\* ruble offer and a converted one
C26_Witness ==
  /\ CycleRan /\ cycles = 3 /\ edits = 0
  /\ db.traders # TradersMain
  /\ BlankTraders(db.traders) = BlankTraders(TradersMain)
  /\ \E w \in Range(last.writes) : w.converted = Undefined
  /\ \E w \in Range(last.writes) : w.converted # Undefined

\* C27: at no time are two cycles in progress, whatever the order of the
\* host's calls of postDBLoad and the firings of the timer.
C27_CyclesNeverOverlap == Len(last.tasks) <= 1

\* C27 witness: a cycle begun by the timer is part-way through its traders
\* while the timer is pending
C27_Witness ==
  /\ Len(last.tasks) = 1
  /\ last.tasks[1].kind = "timer"
  /\ last.tasks[1].done = 1
  /\ last.tasks[1].id \in timers
  /\ starts < MaxStarts

\* C28 (as the specification states it): for a baseline above 0 and a
\* configuration the loader produced, the price _randomizePrice returns is
\* an integer and is not below 0.
C28_PriceIsNonNegativeInteger ==
  (last.op = "randomize" /\ last.baseline.n > 0
     /\ config.minMultiplier <= config.maxMultiplier
     /\ config.minAbsolute >= 0 /\ config.maxAbsolute >= 0) =>
    /\ last.price \in Int
    /\ last.price >= 0

\* C28 failing state: the loader passed the multipliers -0.5 and 0.3, no
\* lower bound is set, and the price of the baseline 1000 is below 0
C28_Witness ==
  /\ last.op = "randomize"
  /\ last.baseline = Num(1000)
  /\ config.minMultiplier = -50 /\ config.maxMultiplier = 30
  /\ config.minAbsolute = 0
  /\ last.multiplier < 0
  /\ last.price < 0

(* ------------------------------------------------------------------ *)
(* The loader on its own: loadAndValidateConfig is applied once to a   *)
(* user configuration whose keys hold any of the raw values below.     *)
(* ------------------------------------------------------------------ *)
\* raw values of minMultiplier and maxMultiplier: absent, 0, -0.5, 0.3, 2.5,
\* the string "1.2", a string that is no number, Infinity
RawMultipliers ==
  {Undefined, Num(0), Num(-50), Num(30), Num(250), Str(120), NaNStr, Num(Infinite)}

\* raw values of intervalSeconds: absent, 0, -1.5, 60.5, the string "90",
\* a string that is no number, null, Infinity, the string "-Infinity"
RawIntervals ==
  {Undefined, Num(0), Num(-150), Num(6050), Str(9000), NaNStr, Null, Num(Infinite),
   Str(-Infinite)}

\* raw values of minAbsolute and maxAbsolute: absent, 0, -5, 300, 100.5,
\* the string "100", Infinity
RawAbsolutes ==
  {Undefined, Num(0), Num(-500), Num(30000), Num(10050), Str(10000), Num(Infinite)}

\* raw rounding modes: absent, the three modes, and a word that is no mode
RawRoundings == {"", "nearest", "floor", "ceil", "up"}

\* raw traderIds: no array; an empty array; an array with a repeated and an
\* empty identifier
RawTraderIds ==
  {[isArray |-> FALSE, list |-> <<>>], [isArray |-> TRUE, list |-> <<>>],
   [isArray |-> TRUE, list |-> <<"a", "", "a", "b">>]}

\* raw seeds: absent, null, 0, 42, 42.5, the string "7", a string that is no
\* number, Infinity
RawSeeds ==
  {Undefined, Null, Num(0), Num(4200), Num(4250), Str(700), NaNStr, Num(Infinite)}

\* the numeric keys vary together; so do the keys that are not numbers
RawConfigs ==
  {[RawDefaults EXCEPT !.minMultiplier = lo, !.maxMultiplier = hi,
                       !.intervalSeconds = interval] :
     lo \in RawMultipliers, hi \in RawMultipliers, interval \in RawIntervals}
  \cup
  {[RawDefaults EXCEPT !.minAbsolute = lo, !.maxAbsolute = hi,
                       !.intervalSeconds = interval] :
     lo \in RawAbsolutes, hi \in RawAbsolutes, interval \in RawIntervals}
  \cup
  {[RawDefaults EXCEPT !.rounding = mode, !.ccRounding = ccMode, !.traderIds = ids,
                       !.seed = seed] :
     mode \in RawRoundings, ccMode \in RawRoundings, ids \in RawTraderIds,
     seed \in RawSeeds}
  \cup
  {[RawDefaults EXCEPT !.seed = seed, !.minMultiplier = lo, !.maxAbsolute = hi,
                       !.traderIds = ids] :
     seed \in RawSeeds, lo \in RawMultipliers, hi \in RawAbsolutes, ids \in RawTraderIds}

LoaderInit ==
  /\ build \in {"A", "B"}
  /\ userConfig \in RawConfigs
  /\ db = Store(FALSE, NoTraders, NoTable, NoTable)
  /\ config = NoConfig
  /\ rng = seededRandom(0)
  /\ last = [op |-> "none"]
  /\ intervalTimer = 0
  /\ timers = {}
  /\ priceCache = EmptyMap
  /\ currencyCache = EmptyMap
  /\ baselinePrices = EmptyMap
  /\ cycles = 0
  /\ starts = 0
  /\ edits = 0

\* one call of loadAndValidateConfig; its result is kept in config
LoadOne ==
  /\ ~config.loaded
  /\ config' = loadAndValidateConfig(build, userConfig)
  /\ last' = [op |-> "load"]
  /\ UNCHANGED <<build, userConfig, db, rng, intervalTimer, timers, priceCache,
                 currencyCache, baselinePrices, cycles, starts, edits>>

SpecLoader == LoaderInit /\ [][LoadOne]_vars

\* a whole number of seconds, as Number.isInteger tests it
IsWholeNumber(h) == isFinite(h) /\ h % Scale = 0

\* C29 (as the specification states it): the configuration the loader
\* returns has minMultiplier <= maxMultiplier, both absolute bounds at least
\* 0, minAbsolute <= maxAbsolute when maxAbsolute is above 0, both rounding
\* modes among nearest, floor and ceil, intervalSeconds a whole number that
\* is not negative, and traderIds a list of distinct non-empty strings.
C29_LoaderPostconditions ==
  (last.op = "load") =>
    /\ config.minMultiplier <= config.maxMultiplier
    /\ config.minAbsolute >= 0 /\ config.maxAbsolute >= 0
    /\ (config.maxAbsolute > 0 => config.minAbsolute <= config.maxAbsolute)
    /\ config.rounding \in {"nearest", "floor", "ceil"}
    /\ config.ccRounding \in {"nearest", "floor", "ceil"}
    /\ config.intervalSeconds >= 0 /\ IsWholeNumber(config.intervalSeconds)
    /\ \A i \in 1..Len(config.traderIds) :
         /\ config.traderIds[i] # ""
         /\ \A j \in 1..Len(config.traderIds) :
              config.traderIds[i] = config.traderIds[j] => i = j

\* C29 failing state: build A's loader was given the intervalSeconds
\* Infinity and returns it
C29_Witness ==
  /\ last.op = "load"
  /\ build = "A"
  /\ userConfig.intervalSeconds = Num(Infinite)
  /\ config.intervalSeconds = Infinite

\* a seed written as a non-negative integer, or as a string of decimal digits
ExplicitIntegerSeed(v) ==
  v.t \in {"num", "str"} /\ v.n >= 0 /\ IsWholeNumber(v.n)

\* a seed that is null or absent, or holds no finite number
NoParsableSeed(v) ==
  v.t \in {"undef", "null", "nanstr"} \/ ~isFinite(v.n)

\* C31 (as the specification states it): an explicit seed that is a
\* non-negative integer or a string of decimal digits is the resolved seed
\* and is not marked derived; only a null, absent or unparsable seed is
\* replaced by a derived seed, and the derived seed is the one that
\* minMultiplier, maxMultiplier and traderIds of the result determine.
C31_SeedResolution ==
  (last.op = "load") =>
    /\ ExplicitIntegerSeed(userConfig.seed) =>
         /\ config.seed = userConfig.seed.n \div Scale
         /\ ~config._derivedSeed
    /\ config._derivedSeed =>
         /\ NoParsableSeed(userConfig.seed)
         /\ config.seed = DerivedSeed(config.minMultiplier, config.maxMultiplier,
                                      config.traderIds)

\* C31 failing state: build B's loader was given the seed "7" and returns a
\* derived seed
C31_Witness ==
  /\ last.op = "load"
  /\ build = "B"
  /\ userConfig.seed = Str(7 * Scale)
  /\ config._derivedSeed
  /\ config.seed # 7

(* ------------------------------------------------------------------ *)
(* Discovery on its own: the store holds up to MaxVendors traders in   *)
(* any order, and the discovery of the build is called once.           *)
(* ------------------------------------------------------------------ *)
\* traders in one store
MaxVendors == 3

\* base.nickname of the traders a store may hold: "AIO", "xBlueHeadx",
\* "Prapor", none, a number, "Ai", "MyAioTrader"
VendorNickname(t) ==
  CASE t = "a" -> Nickname(<<"A", "I", "O">>)
    [] t = "b" -> Nickname(<<"x", "B", "l", "u", "e", "H", "e", "a", "d", "x">>)
    [] t = "p" -> Nickname(<<"P", "r", "a", "p", "o", "r">>)
    [] t = "n" -> NoNickname
    [] t = "m" -> NumberNickname
    [] t = "i" -> Nickname(<<"A", "i">>)
    [] OTHER -> Nickname(<<"M", "y", "A", "i", "o", "T", "r", "a", "d", "e", "r">>)

VendorIds == {"a", "b", "p", "n", "m", "i", "t"}

\* Object.entries(db.traders): the traders of a store, in its order
VendorOrders ==
  {o \in UNION {[1..n -> VendorIds] : n \in 0..MaxVendors} :
     \A i, j \in 1..Len(o) : o[i] = o[j] => i = j}

DiscoveryInit ==
  /\ build \in {"A", "B"}
  /\ userConfig = RawDefaults
  /\ \E o \in VendorOrders :
       db = Store(TRUE,
                  [order |-> o,
                   at |-> [t \in {o[i] : i \in 1..Len(o)} |->
                             Trader(VendorNickname(t), "list", <<>>, EmptyMap)]],
                  NoTable, NoTable)
  /\ config = NoConfig
  /\ rng = seededRandom(0)
  /\ last = [op |-> "none", found |-> <<>>, raised |-> FALSE]
  /\ intervalTimer = 0
  /\ timers = {}
  /\ priceCache = EmptyMap
  /\ currencyCache = EmptyMap
  /\ baselinePrices = EmptyMap
  /\ cycles = 0
  /\ starts = 0
  /\ edits = 0

\* one call of _discoverTraders / _autoDiscoverRelevantTraders
DiscoverOne ==
  /\ last.op = "none"
  /\ last' = [op |-> "discover", found |-> Discover(build, db).found,
              raised |-> Discover(build, db).raised]
  /\ UNCHANGED <<build, userConfig, db, config, rng, intervalTimer, timers, priceCache,
                 currencyCache, baselinePrices, cycles, starts, edits>>

SpecDiscovery == DiscoveryInit /\ [][DiscoverOne]_vars

KnownSubstrings ==
  {<<"a", "i", "o">>, <<"b", "l", "u", "e", "h", "e", "a", "d">>,
   <<"a", "i", "o", "t", "r", "a", "d", "e", "r">>}

\* the display name holds a known substring, letter case apart
NameMatches(nick) ==
  /\ nick.k = "str"
  /\ \E pat \in KnownSubstrings : \E off \in 0..(Len(nick.s) - Len(pat)) :
       \A k \in 1..Len(pat) : toLowerCaseChar(nick.s[off + k]) = pat[k]

\* the place of a trader in the store's order
PlaceOf(t) == CHOOSE i \in 1..Len(db.traders.order) : db.traders.order[i] = t

\* C32 (as the specification states it): discovery does not raise, and
\* returns exactly the identifiers of the store's traders whose display
\* name holds a known substring whatever the letter case, in the store's
\* order and each once.
C32_DiscoveryIsExact ==
  (last.op = "discover") =>
    /\ ~last.raised
    /\ {last.found[i] : i \in 1..Len(last.found)} =
         {t \in DOMAIN db.traders.at : NameMatches(db.traders.at[t].nickname)}
    /\ \A i, j \in 1..Len(last.found) :
         i < j => PlaceOf(last.found[i]) < PlaceOf(last.found[j])

\* C32 failing state: build A's discovery met a trader whose nickname is a
\* number, after a trader that matches, and raised
C32_Witness ==
  /\ last.op = "discover"
  /\ build = "A"
  /\ db.traders.order = <<"a", "m", "b">>
  /\ last.raised

\* the entries of trader t's assortment that have an item identifier, an
\* offer identifier and a baseline price above 0
EntriesDue(t) ==
  IF db.traders.at[t].items.kind # "list" THEN {}
  ELSE {i \in 1..Len(db.traders.at[t].items.list) :
          LET item == db.traders.at[t].items.list[i] IN
          /\ item._tpl # NoId
          /\ item._id # NoId
          /\ MapHas(baselinePrices, item._tpl)
          /\ GtZero(baselinePrices[item._tpl])}

\* the number of such entries over the traders i.. of a list, those of
\* the traders in `but` left out
RECURSIVE StepsDue(_, _, _)
StepsDue(traderIds, i, but) ==
  IF i > Len(traderIds) THEN 0
  ELSE (IF traderIds[i] \in but THEN 0 ELSE Cardinality(EntriesDue(traderIds[i])))
         + StepsDue(traderIds, i + 1, but)

FailedInCycle == {last.failed[k] : k \in 1..Len(last.failed)}

\* C33 (as the specification states it): the generator steps of a cycle
\* are as many as the entries with an item identifier, an offer identifier
\* and a positive baseline of the vendors the cycle processed.
C33_OneStepPerEntry ==
  (last.ran /\ db.avail) => last.calls = StepsDue(last.attempted, 1, {})

\* C33, amended: the steps are exactly those entries when no vendor's
\* processing raised, with or without a write for the entry; a vendor whose
\* processing raised stops at the entry that raised, so the steps lie
\* between the entries of the vendors that completed and those of all.
C33_OneStepPerEntryReached ==
  (last.ran /\ db.avail) =>
    /\ last.calls >= StepsDue(last.attempted, 1, FailedInCycle)
    /\ last.calls <= StepsDue(last.attempted, 1, {})
    /\ (last.failed = <<>> => last.calls = StepsDue(last.attempted, 1, {}))

\* C33 witness: a cycle in which no vendor failed took more generator steps
\* than it wrote offers
C33_Witness ==
  /\ last.ran
  /\ last.failed = <<>>
  /\ Len(last.writes) > 0
  /\ last.calls > Len(last.writes)
  /\ last.calls = StepsDue(last.attempted, 1, {})

\* C33 (original) fails: a vendor's processing raised at an entry and a
\* later entry with both identifiers and a positive baseline got no step
C33_StepsMissed ==
  /\ last.ran
  /\ last.failed # <<>>
  /\ last.calls < StepsDue(last.attempted, 1, {})

\* the entries of the store whose template has no baseline entry, as
\* <<trader, index in its items>>
EntriesWithoutBaseline ==
  UNION {{<<t, i>> : i \in {k \in 1..Len(db.traders.at[t].items.list) :
                              db.traders.at[t].items.list[k]._tpl
                                \notin DOMAIN baselinePrices}} :
           t \in {u \in DOMAIN db.traders.at : db.traders.at[u].items.kind = "list"}}

\* C34: with retention on and a baseline that is not empty, a template
\* without a baseline entry (an item or a trader that joined the store
\* after the baseline was built) gets none in any later step, and a cycle
\* leaves every offer of its entries as it was.
C34_LateItemNeverPriced ==
  [][(config.loaded /\ config.stickToBaseline /\ DOMAIN baselinePrices # {}) =>
       \A p \in EntriesWithoutBaseline :
          LET item == db.traders.at[p[1]].items.list[p[2]] IN
          /\ item._tpl \notin DOMAIN baselinePrices'
          /\ (last'.ran /\ item._id \in DOMAIN db.traders.at[p[1]].barter_scheme) =>
               db'.traders.at[p[1]].barter_scheme[item._id] =
                 db.traders.at[p[1]].barter_scheme[item._id]]_vars

\* C34 witness: a later cycle processed a trader that had gained the item
\* n1, whose template t3 the handbook prices at 20; t3 has no baseline
\* entry and the item's ruble offer still has its quantity 1
C34_Witness ==
  /\ last.ran /\ last.op = "timer" /\ last.stage = "done"
  /\ config.stickToBaseline
  /\ DOMAIN baselinePrices # {}
  /\ "t3" \notin DOMAIN baselinePrices
  /\ GtZero(PriceIn(db.handbook, "t3"))
  /\ \E t \in Range(last.attempted) :
       /\ "n1" \in DOMAIN db.traders.at[t].barter_scheme
       /\ db.traders.at[t].barter_scheme["n1"] = Scheme(<< <<Offer(RubleTpl, 1)>> >>)

\* the places of the offers of an option that differ between two schemes
ChangedOffers(old, new, o) ==
  {k \in 1..Len(old.opts[o]) : new.opts[o][k] # old.opts[o][k]}

\* C35: a cycle changes at most one offer of an assortment entry's scheme,
\* an offer of the first barter option; every other option is as it was.
C35_OneOfferOfFirstOption ==
  [][last'.ran =>
       \A t \in DOMAIN db.traders.at : \A id \in DOMAIN db.traders.at[t].barter_scheme :
          LET old == db.traders.at[t].barter_scheme[id]
              new == db'.traders.at[t].barter_scheme[id]
          IN /\ Len(new.opts) = Len(old.opts)
             /\ \A o \in 2..Len(old.opts) : new.opts[o] = old.opts[o]
             /\ Len(old.opts) > 0 => Cardinality(ChangedOffers(old, new, 1)) <= 1]_vars

\* C35 witness: in cash-only mode trader a's entry i1, whose first option
\* holds an item offer and a dollar offer and whose second option holds a
\* ruble offer, has a new dollar quantity and nothing else changed
C35_Witness ==
  /\ last.ran
  /\ config.onlyCashTrades
  /\ "a" \in DOMAIN db.traders.at
  /\ "i1" \in DOMAIN db.traders.at["a"].barter_scheme
  /\ LET scheme == db.traders.at["a"].barter_scheme["i1"] IN
     /\ Len(scheme.opts) = 2
     /\ scheme.opts[1][1] = Offer("t2", 2)
     /\ scheme.opts[1][2]._tpl = DollarTpl /\ scheme.opts[1][2].count # 7
     /\ scheme.opts[2] = <<Offer(RubleTpl, 9)>>

====
